---- MODULE Spec2Model ----
(***************************************************************************)
(* Model of the fleet-reconciliation engine of github-runner-manager:      *)
(* RunnerManager (manager/runner_manager.py) on top of the cloud runner    *)
(* manager (openstack_cloud/openstack_runner_manager.py).                  *)
(*                                                                         *)
(*   SpecSpawn   create_runners: the inline path and the worker pool       *)
(*   Spec        get_runners over the cloud view and the GitHub view       *)
(*   SpecDelete  delete_runners, interleaved with unfiltered get_runners   *)
(*   SpecFlush   flush_runners in every flush mode                         *)
(*   SpecCleanup cleanup: the offline registrations, then the instances    *)
(*   SpecDeleteRunner  one delete_runner call of the cloud manager         *)
(*   SpecPull    _pull_runner_metrics over the two metrics files           *)
(*   SpecStart   create_runner of the cloud manager and its startup probe  *)
(*   SpecIssue   _issue_runner_metrics over several invocations            *)
(*   SpecLock    the lock endpoints of http_server.py, SpecLockFair with   *)
(*               fair scheduling of the requests                           *)
(*   SpecPass    one pass over a fleet: delete_runners or cleanup          *)
(*   SpecBatch   the creation jobs of a create_runners call, step by step  *)
(*   SpecCreate  a creation job while cleanup passes run, SpecCreateFair   *)
(*               with fair scheduling of both                              *)
(*   SpecCharm   successive CharmState.from_charm calls (charm_state.py)   *)
(***************************************************************************)
EXTENDS Integers, Sequences, FiniteSets, TLC

(***************************************************************************)
(* Bounds of the model and constants of the program.                       *)
(***************************************************************************)
\* Largest batch handed to create_runners.  It exceeds PoolCap so that the
\* cap on the worker pool is reached with jobs still queued.
MaxNum == 11

\* Pool(processes=min(num, 10)), runner_manager.py line 343.
PoolCap == 10

\* Number of runner names the cloud view and the GitHub view of Spec draw from.
MaxRunners == 2

Min(a, b) == IF a <= b THEN a ELSE b

VARIABLES
    \* ---- create_runners / _spawn_runners -------------------------------
    spawn_pc,          \* "idle" | "pool" | "returned" | "raised"
    num,               \* len(create_runner_args_sequence) of the call
    processes,         \* worker processes of the Pool; 0: no Pool was created
    queued,            \* jobs of the iterable not yet handed to a worker
    running,           \* jobs executing in a worker
    jobs,              \* results completed and not yet yielded by next(jobs)
    iteration,         \* iterations of "for _ in range(num)" completed
    instance_id_list,  \* number of instance ids appended to instance_id_list
    logged,            \* "Failed to spawn a runner." records written
    finished,          \* history: jobs that ran to their end, by outcome
    terminated,        \* jobs killed by Pool.__exit__ (terminate) before their end
    raised,            \* the error the call raised to its caller, or "none"
    \* ---- the two views the engine reads ---------------------------------
    cloud,             \* the cloud manager's instances, in the order it lists them
    github,            \* the runners registered on GitHub
    \* ---- get_runners ----------------------------------------------------
    op,                \* the engine operation that ran last, or "none"
    call,              \* the filters of the last get_runners call
    runner_instances,  \* what the last get_runners call returned
    cloud_only,        \* names of its "on cloud but not registered" warning
    github_only,       \* names of its "on GitHub but no instance" warning
    previous,          \* history: the result of the unfiltered get_runners call
                       \* right before the last one, when both were unfiltered
    \* ---- delete_runners -------------------------------------------------
    delete_pc,         \* "idle" | "deleting" | "raised": where delete_runners stands
    delete_num,        \* the num argument of the delete_runners call
    runners_list,      \* the runners picked for deletion
    remove_token,      \* the removal token of the call, or "none"
    tokens_requested,  \* get_removal_token calls made by the call
    index,             \* the runner of runners_list the loop handles next
    delete_calls,      \* the cloud delete_runner calls of the call, in order
    runner_metrics_list, \* names of the runners whose deletion gave metrics
    \* ---- flush_runners --------------------------------------------------
    busy_instances,    \* names of the cloud instances that run a job
    flush_mode,        \* the flush mode of the last flush_runners call, or "none"
    flush_log,         \* level of the record the match statement wrote
    flush_busy,        \* the busy flag handed to the cloud manager
    flushed,           \* names of the instances the cloud manager removed
    \* ---- cleanup --------------------------------------------------------
    cleanup_pc,        \* "idle" | "reconciled" | "health" | "delete" |
                       \* "returned" | "raised"
    cloud_before,      \* history: the cloud view when the cleanup began
    github_before,     \* history: the GitHub view when the cleanup began
    github_runners_to_delete, \* the registrations handed to delete_runners
    runner_list,       \* the instances _get_runner_health classifies
    health_index,      \* the instance of runner_list it classifies next
    tries,             \* attempts of the running _health_check
    probed,            \* history: names of the instances probed
    healthy,           \* names of the instances classified healthy
    unhealthy,         \* names of the instances classified unhealthy
    unhealthy_index,   \* the unhealthy instance deleted next
    provider_deletes,  \* history: names delete_instance was called for
    script_run,        \* the instance the last _delete_runner of the cleanup
                       \* dealt with, and whether it ran the removal script
    cleanup_raised,    \* the error the cleanup raised to its caller, or "none"
    \* ---- delete_runner of the cloud manager -----------------------------
    delete_args,       \* the token of the call and what its steps end with
    last_delete,       \* the steps the call took and what it raised
    \* ---- _pull_runner_metrics -------------------------------------------
    pull_args,         \* the metrics storage and the two files on the instance
    pull_result,       \* the files pulled and what the call raised
    \* ---- create_runner of the cloud manager -----------------------------
    start_pc,          \* "idle" | "probing" | "returned" | "raised"
    registration_token, \* the registration token of the call, or "none"
    launch,            \* what launch_instance ended with, or "none"
    probes,            \* attempts of _wait_runner_startup made
    failed_probes,     \* history: attempts that raised RunnerStartError
    last_probe,        \* history: what the last attempt met on the instance
    installed_metric,  \* what _issue_runner_installed_metric got done
    start_raised,      \* the error the call raised to its caller, or "none"
    \* ---- _issue_runner_metrics ------------------------------------------
    issue_pc,          \* "idle" | "loop" | "returned" | "raised"
    invocations,       \* invocations of _issue_runner_metrics so far
    metrics_left,      \* the RunnerMetrics the iterator has yet to give
    total_stats,       \* the local total_stats of the invocation
    issue_log,         \* history: per record of the invocation, what was done
    returned_stats,    \* history: what the invocation before this one returned
    \* ---- the lock of http_server.py -------------------------------------
    lock,              \* app.config["lock"]: TRUE when it is locked
    pending,           \* the clients whose /lock/acquire is being served
    reconcile_pc,      \* the reconciliation service: "idle" | "pass"
    response,          \* the response the last step sent, if it sent one
    holder,            \* history: who took the lock last, no release since
    holding,           \* history: who took the lock and has not released
    acquired,          \* history: times the lock was taken since a release
    \* ---- the creation jobs of a create_runners call ---------------------
    batch_pc,          \* "idle" | "running" | "returned" | "raised"
    returned_ids,      \* names of the InstanceIDs the call returned
    job_pc,            \* per name: "idle" | "registered" | "probing" | "failing" |
                       \* "returned" | "raised" | "terminated"
    job_probes,        \* per name: attempts of _wait_runner_startup made
    job_raised,        \* per name: the error the job ended with, or "none"
    startup_process,   \* per name: the startup script runs on the instance
    \* ---- CharmState.from_charm -----------------------------------------
    charm_state_file,  \* charm_state.json: whether it exists and what it holds
    charm_config,      \* the charm configuration of the last from_charm call
    from_charm_result, \* what the last from_charm call ended with
    file_before,       \* history: charm_state.json when the last call began
    stored_storage     \* history: runner-storage of the last call that stored
                       \* a local LXD state, or "none"

spawnVars == <<spawn_pc, num, processes, queued, running, jobs, iteration,
               instance_id_list, logged, finished, terminated, raised>>

worldVars == <<cloud, github>>

getVars == <<op, call, runner_instances, cloud_only, github_only, previous>>

deleteVars == <<delete_pc, delete_num, runners_list, remove_token, tokens_requested, index,
                delete_calls, runner_metrics_list>>

flushVars == <<busy_instances, flush_mode, flush_log, flush_busy, flushed>>

cleanupVars == <<cleanup_pc, cloud_before, github_before,
                 github_runners_to_delete, runner_list, health_index, tries,
                 probed, healthy, unhealthy, unhealthy_index, provider_deletes,
                 script_run, cleanup_raised>>

runnerVars == <<delete_args, last_delete>>

\* The variables of the flush pass, of the cleanup pass and of the cloud
\* manager's delete_runner.
passVars == <<flushVars, cleanupVars, runnerVars>>

pullVars == <<pull_args, pull_result>>

startVars == <<start_pc, registration_token, launch, probes, failed_probes,
               last_probe, installed_metric, start_raised>>

\* The variables of the units modelled on their own.
issueVars == <<issue_pc, invocations, metrics_left, total_stats, issue_log,
               returned_stats>>

lockVars == <<lock, pending, reconcile_pc, response, holder, holding, acquired>>

jobVars == <<batch_pc, returned_ids, job_pc, job_probes, job_raised,
             startup_process>>

charmVars == <<charm_state_file, charm_config, from_charm_result, file_before,
               stored_storage>>

unitVars == <<pullVars, startVars, issueVars, lockVars, jobVars, charmVars>>

\* The variables of the engine and of the passes of the cloud manager.
engineVars == <<spawnVars, worldVars, getVars, deleteVars, passVars>>

\* What the spawner leaves alone.
notSpawnVars == <<worldVars, getVars, deleteVars, passVars, unitVars>>

vars == <<engineVars, unitVars>>

(***************************************************************************)
(* The data model: InstanceID, the cloud view and the GitHub view.         *)
(***************************************************************************)
Names == 1..MaxRunners

\* InstanceID: a unique name and the reactive flag.  The even names are the
\* runners created by the reactive path.
InstanceID(name) == [name |-> name, reactive |-> name % 2 = 0]

CloudRunnerState == {"created", "active", "stopped", "error", "deleted"}

HealthState == {"healthy", "unhealthy"}

GitHubRunnerState == {"busy", "idle", "offline"}

\* The cloud states and health a cloud instance is listed with: a deleted,
\* errored or stopped instance is unhealthy without a probe, the probe decides
\* for the others (_get_runner_health).
CloudCombos ==
    {c \in [state : CloudRunnerState, health : HealthState] :
        c.state \in {"deleted", "error", "stopped"} => c.health = "unhealthy"}

\* What GitHub reports of a registered runner.
GithubCombos == [status : {"online", "offline"}, busy : BOOLEAN]

\* CloudRunnerInstance
CloudRunnerInstance(name, c) ==
    [name |-> name, instance_id |-> InstanceID(name), health |-> c.health,
     state |-> c.state]

\* SelfHostedRunner
SelfHostedRunner(name, g) ==
    [instance_id |-> InstanceID(name), status |-> g.status, busy |-> g.busy]

RECURSIVE Ascending(_)
\* The elements of a set of names as a list, smallest first.
Ascending(S) ==
    IF S = {} THEN <<>>
    ELSE LET m == CHOOSE x \in S : \A y \in S : x <= y
         IN  <<m>> \o Ascending(S \ {m})

\* The views with the instances of cf and the registrations of gf, each a
\* function from the names present to what is reported of them.
CloudView(cf) ==
    LET names == Ascending(DOMAIN cf)
    IN  [i \in 1..Len(names) |-> CloudRunnerInstance(names[i], cf[names[i]])]

GithubView(gf) ==
    LET names == Ascending(DOMAIN gf)
    IN  [i \in 1..Len(names) |-> SelfHostedRunner(names[i], gf[names[i]])]

Range(seq) == {seq[i] : i \in 1..Len(seq)}

CloudNames(cl) == {cl[i].name : i \in 1..Len(cl)}

GithubNames(gh) == {gh[i].instance_id.name : i \in 1..Len(gh)}

EmptyWorld == cloud = <<>> /\ github = <<>>

\* The cloud views over the names ns that list instances as in cc, with the
\* GitHub views that report runners as in gc.
World(ns, cc, gc) ==
    \E cs \in SUBSET ns, gs \in SUBSET ns :
        \E cf \in [cs -> cc], gf \in [gs -> gc] :
            /\ cloud = CloudView(cf)
            /\ github = GithubView(gf)

(***************************************************************************)
(* get_runners.                                                            *)
(***************************************************************************)
\* An optional state filter: None, or a list of states.
None == [given |-> FALSE, states |-> {}]

Filter(states) == [given |-> TRUE, states |-> states]

\* GitHubRunnerState.from_runner: offline unless GitHub reports the runner
\* online; an online runner is busy or idle by its busy flag.
from_runner(runner) ==
    IF runner.status = "online"
    THEN IF runner.busy THEN "busy" ELSE "idle"
    ELSE "offline"

\* GitHubRunnerManager.get_runners(states)
github_get_runners(gh, states) ==
    SelectSeq(gh, LAMBDA r : ~states.given \/ from_runner(r) \in states.states)

\* CloudRunnerManager.get_runners(states)
cloud_get_runners(cl, states) ==
    SelectSeq(cl, LAMBDA i : ~states.given \/ i.state \in states.states)

RECURSIVE DictKeys(_)
\* The keys of a dict filled from a list of keys: each key once, in the order
\* of its first insertion.
DictKeys(keys) ==
    IF keys = <<>> THEN <<>>
    ELSE LET front == DictKeys(SubSeq(keys, 1, Len(keys) - 1))
             last == keys[Len(keys)]
         IN  IF last \in Range(front) THEN front ELSE Append(front, last)

\* The value a dict filled from a list holds for a key: the last one inserted.
DictGet(keys, values, k) ==
    LET i == CHOOSE i \in 1..Len(keys) :
                 keys[i] = k /\ \A j \in (i + 1)..Len(keys) : keys[j] # k
    IN  values[i]

\* Faulty variant: the GitHub information is not carried into the runner instance.
RunnerInstanceNoGithub(cloud_instance, github_info) ==
    [name |-> cloud_instance.name,
     instance_id |-> cloud_instance.instance_id,
     health |-> cloud_instance.health,
     github_state |-> "none",
     cloud_state |-> cloud_instance.state]

\* RunnerInstance.__init__; github_info is <<>> for None, <<info>> otherwise.
RunnerInstance(cloud_instance, github_info) ==
    [name |-> cloud_instance.name,
     instance_id |-> cloud_instance.instance_id,
     health |-> cloud_instance.health,
     github_state |-> IF github_info # <<>> THEN from_runner(github_info[1])
                      ELSE "none",
     cloud_state |-> cloud_instance.state]

\* Faulty variant: only the runners found on both sides are returned.
ReturnedNamesJoined(cloud_keys, runner_names) ==
    SelectSeq(cloud_keys, LAMBDA name : name \in runner_names)

\* "for name in cloud_infos_map.keys()": the names of the instances built.
ReturnedNames(cloud_keys, runner_names) == cloud_keys

\* "if cloud_states is not None": keep the runners in these cloud states.
FilterCloudStates(runners, cloud_states) ==
    IF cloud_states.given
    THEN SelectSeq(runners, LAMBDA runner : runner.cloud_state \in cloud_states.states)
    ELSE runners

\* Faulty variant: the GitHub filter is left to the GitHub listing alone.
FilterGithubStatesSkipped(runners, github_states) == runners

\* "if github_states is not None": keep the runners that have a GitHub state,
\* and have one of these.
FilterGithubStates(runners, github_states) ==
    IF github_states.given
    THEN SelectSeq(runners, LAMBDA runner :
             runner.github_state # "none" /\ runner.github_state \in github_states.states)
    ELSE runners

\* RunnerManager.get_runners: the tuple returned and the names of its two
\* warnings.
get_runners(cl, gh, github_states, cloud_states) ==
    LET github_infos == github_get_runners(gh, github_states)
        cloud_infos == cloud_get_runners(cl, cloud_states)
        github_keys == [i \in 1..Len(github_infos) |-> github_infos[i].instance_id.name]
        cloud_keys == [i \in 1..Len(cloud_infos) |-> cloud_infos[i].name]
        github_infos_map == DictKeys(github_keys)
        cloud_infos_map == DictKeys(cloud_keys)
        runner_names == Range(cloud_infos_map) \cap Range(github_infos_map)
        names == ReturnedNames(cloud_infos_map, runner_names)
        built ==
            [i \in 1..Len(names) |->
                RunnerInstance(
                    DictGet(cloud_keys, cloud_infos, names[i]),
                    IF names[i] \in Range(github_infos_map)
                    THEN <<DictGet(github_keys, github_infos, names[i])>>
                    ELSE <<>>)]
    IN  [runners |-> FilterGithubStates(FilterCloudStates(built, cloud_states),
                                        github_states),
         cloud_only |-> Range(cloud_infos_map) \ runner_names,
         github_only |-> Range(github_infos_map) \ runner_names]

\* The filters get_runners is called with.
GithubFilters == {None, Filter({"offline"}), Filter({"busy", "idle"})}

CloudFilters == {None, Filter({"created", "active"})}

NoGetRunners ==
    /\ op = "none"
    /\ call = [github_states |-> None, cloud_states |-> None]
    /\ runner_instances = <<>>
    /\ cloud_only = {}
    /\ github_only = {}
    /\ previous = [valid |-> FALSE, runners |-> <<>>]

Unfiltered == call.github_states = None /\ call.cloud_states = None

NoDeleteRunners ==
    /\ delete_pc = "idle"
    /\ delete_num = 0
    /\ runners_list = <<>>
    /\ remove_token = "none"
    /\ tokens_requested = 0
    /\ index = 1
    /\ delete_calls = <<>>
    /\ runner_metrics_list = <<>>

NoFlushRunners ==
    /\ flush_mode = "none"
    /\ flush_log = "none"
    /\ flush_busy = FALSE
    /\ flushed = {}

NoScript == [name |-> 0, script |-> FALSE]

NoCleanup ==
    /\ cleanup_pc = "idle"
    /\ cloud_before = <<>>
    /\ github_before = <<>>
    /\ github_runners_to_delete = <<>>
    /\ runner_list = <<>>
    /\ health_index = 1
    /\ tries = 0
    /\ probed = {}
    /\ healthy = <<>>
    /\ unhealthy = <<>>
    /\ unhealthy_index = 1
    /\ provider_deletes = <<>>
    /\ script_run = NoScript
    /\ cleanup_raised = "none"

NoArgs ==
    [remove_token |-> "none", ssh |-> "ok", pull |-> "ok", script |-> "ok",
     provider |-> "ok"]

NoDelete == [called |-> FALSE, steps |-> <<>>, raised |-> "none"]

NoDeleteRunner == delete_args = NoArgs /\ last_delete = NoDelete

\* No pass has run, and no instance runs a job.
NoPass == NoFlushRunners /\ busy_instances = {} /\ NoCleanup /\ NoDeleteRunner

NoFile == [stat |-> "ok", size |-> 0, get |-> "ok"]

NoPull ==
    /\ pull_args = [storage |-> "ok", pre_job |-> NoFile, post_job |-> NoFile]
    /\ pull_result = [called |-> FALSE, pulled |-> {}, raised |-> "none"]

NoProbe == [ssh |-> "none", ps |-> "none", process |-> FALSE]

NoMetric == [issued |-> FALSE, timestamp |-> FALSE]

NoStart ==
    /\ start_pc = "idle"
    /\ installed_metric = NoMetric
    /\ registration_token = "none"
    /\ launch = "none"
    /\ probes = 0
    /\ failed_probes = 0
    /\ last_probe = NoProbe
    /\ start_raised = "none"

\* No unit has been called.
NoStats == [k \in {} |-> 0]

NoIssue ==
    /\ issue_pc = "idle"
    /\ invocations = 0
    /\ metrics_left = <<>>
    /\ total_stats = NoStats
    /\ issue_log = <<>>
    /\ returned_stats = NoStats

NoResponse == [party |-> "none", route |-> "none", status |-> 0, body |-> ""]

\* The lock as start_http_server receives it: free, nothing served yet.
NoLock ==
    /\ lock = FALSE
    /\ pending = {}
    /\ reconcile_pc = "idle"
    /\ response = NoResponse
    /\ holder = "none"
    /\ holding = {}
    /\ acquired = 0

\* No creation job has been submitted.
NoJobsSubmitted ==
    /\ batch_pc = "idle"
    /\ returned_ids = {}
    /\ job_pc = [n \in Names |-> "idle"]
    /\ job_probes = [n \in Names |-> 0]
    /\ job_raised = [n \in Names |-> "none"]
    /\ startup_process = [n \in Names |-> FALSE]

NoFileStored == [exists |-> FALSE]

NoCharmConfig ==
    [clouds_yaml |-> FALSE, runner_storage |-> "none", virtual_machines |-> "none",
     arch |-> "none"]

\* First deployment: no charm_state.json on disk, from_charm not called.
NoCharmState ==
    /\ charm_state_file = NoFileStored
    /\ charm_config = NoCharmConfig
    /\ from_charm_result = [called |-> FALSE, raised |-> "none",
                            previous_storage |-> "none"]
    /\ file_before = NoFileStored
    /\ stored_storage = "none"

NoUnits == NoPull /\ NoStart /\ NoIssue /\ NoLock /\ NoJobsSubmitted /\ NoCharmState

(***************************************************************************)
(* create_runners and the parallel spawner.                                *)
(*                                                                         *)
(* The jobs of one call are built from the same arguments ("for _ in       *)
(* range(num)"), so they are kept as counters: how many are queued, how    *)
(* many run, how many results of each kind wait to be collected.           *)
(* imap_unordered yields results in completion order; every job may end    *)
(* with every outcome at any time, so the result collected next is any of  *)
(* the waiting ones.                                                       *)
(***************************************************************************)
\* What a creation job ends with.  "RunnerError" stands for RunnerCreateError and
\* RunnerStartError, the RunnerErrors create_runner raises; "OtherError" is
\* any exception that is not a RunnerError (the coordination-service client
\* failing to issue the registration token).
Outcomes == {"ok", "RunnerError", "OtherError"}

NoJobs == [o \in Outcomes |-> 0]

\* RunnerManager._create_runner: registration is what get_registration_jittoken
\* does ("ok" or "OtherError"), creation what cloud create_runner does ("ok" or
\* "RunnerError").  The except clause deletes the registration and re-raises.
_create_runner(registration, creation) ==
    IF registration # "ok" THEN registration
    ELSE IF creation = "ok" THEN "ok"
    ELSE creation

\* Faulty variant: the single-runner path without its try/except.
SpawnSingleUncaught(outcome) ==
    IF outcome = "ok"
    THEN [pc |-> "returned", ids |-> 1, logged |-> 0, raised |-> "none"]
    ELSE [pc |-> "raised", ids |-> 0, logged |-> 0, raised |-> outcome]

\* _spawn_runners with num == 1: the job runs in the calling process; a
\* RunnerError is logged and the empty tuple returned, any other exception
\* leaves the call.
SpawnSingle(outcome) ==
    IF outcome = "ok"
    THEN [pc |-> "returned", ids |-> 1, logged |-> 0, raised |-> "none"]
    ELSE IF outcome = "RunnerError"
    THEN [pc |-> "returned", ids |-> 0, logged |-> 1, raised |-> "none"]
    ELSE [pc |-> "raised", ids |-> 0, logged |-> 0, raised |-> outcome]

\* Faulty variant: a pool as large as the batch.
PoolProcessesUncapped(n) == n

\* Pool(processes=min(num, 10))
PoolProcesses(n) == Min(n, PoolCap)

\* Faulty variant: the loop does not catch RunnerError.
CollectUncaught(outcome) ==
    IF outcome = "ok" THEN "append" ELSE "propagate"

\* One "try: next(jobs) / except RunnerError / else" of the collecting loop.
Collect(outcome) ==
    IF outcome = "ok" THEN "append"
    ELSE IF outcome = "RunnerError" THEN "log"
    ELSE "propagate"

\* Faulty variant: the loop runs range(num - 1).
LoopDoneOneShort(i, n) == i = n - 1

\* "for _ in range(num)" is over.
LoopDone(i, n) == i = n

\* No create_runners call has been made.
SpawnIdle ==
    /\ spawn_pc = "idle"
    /\ num = 0
    /\ processes = 0
    /\ queued = 0
    /\ running = 0
    /\ jobs = NoJobs
    /\ iteration = 0
    /\ instance_id_list = 0
    /\ logged = 0
    /\ finished = NoJobs
    /\ terminated = 0
    /\ raised = "none"

\* create_runners(1): _spawn_runners runs the one job inline.
create_runners_single ==
    /\ spawn_pc = "idle"
    /\ \E registration \in {"ok", "OtherError"}, creation \in {"ok", "RunnerError"} :
         LET outcome == _create_runner(registration, creation)
             r == SpawnSingle(outcome)
         IN  /\ spawn_pc' = r.pc
             /\ instance_id_list' = r.ids
             /\ logged' = r.logged
             /\ raised' = r.raised
             /\ finished' = [finished EXCEPT ![outcome] = 1]
    /\ num' = 1
    /\ iteration' = 0
    /\ UNCHANGED <<processes, queued, running, jobs, terminated>>
    /\ UNCHANGED notSpawnVars

\* create_runners(n), n # 1: _spawn_runners_using_multiprocessing opens the
\* Pool and hands it the n jobs.  Pool(processes=0) raises ValueError.
create_runners_batch(n) ==
    /\ spawn_pc = "idle"
    /\ n # 1
    /\ num' = n
    /\ processes' = PoolProcesses(n)
    /\ IF PoolProcesses(n) < 1
       THEN /\ spawn_pc' = "raised"
            /\ raised' = "ValueError"
            /\ queued' = 0
       ELSE /\ spawn_pc' = "pool"
            /\ raised' = "none"
            /\ queued' = n
    /\ UNCHANGED <<running, jobs, iteration, instance_id_list, logged, finished,
                   terminated>>
    /\ UNCHANGED notSpawnVars

\* An idle worker of the pool takes the next job of the iterable.
WorkerStart ==
    /\ spawn_pc = "pool"
    /\ queued > 0
    /\ running < processes
    /\ queued' = queued - 1
    /\ running' = running + 1
    /\ UNCHANGED <<spawn_pc, num, processes, jobs, iteration, instance_id_list,
                   logged, finished, terminated, raised>>
    /\ UNCHANGED notSpawnVars

\* A worker's _create_runner ends; its result waits for next(jobs).
WorkerFinish ==
    /\ spawn_pc = "pool"
    /\ running > 0
    /\ \E registration \in {"ok", "OtherError"}, creation \in {"ok", "RunnerError"} :
         LET outcome == _create_runner(registration, creation)
         IN  /\ jobs' = [jobs EXCEPT ![outcome] = @ + 1]
             /\ finished' = [finished EXCEPT ![outcome] = @ + 1]
    /\ running' = running - 1
    /\ UNCHANGED <<spawn_pc, num, processes, queued, iteration, instance_id_list,
                   logged, terminated, raised>>
    /\ UNCHANGED notSpawnVars

\* One iteration of the collecting loop.  An exception that is not caught
\* leaves the "with Pool" block, whose exit terminates the pool.
CollectNext ==
    /\ spawn_pc = "pool"
    /\ ~LoopDone(iteration, num)
    /\ \E outcome \in Outcomes :
         /\ jobs[outcome] > 0
         /\ jobs' = [jobs EXCEPT ![outcome] = @ - 1]
         /\ LET what == Collect(outcome)
            IN  IF what = "propagate"
                THEN /\ spawn_pc' = "raised"
                     /\ raised' = outcome
                     /\ terminated' = queued + running
                     /\ queued' = 0
                     /\ running' = 0
                     /\ UNCHANGED <<iteration, instance_id_list, logged>>
                ELSE /\ iteration' = iteration + 1
                     /\ instance_id_list' =
                            IF what = "append" THEN instance_id_list + 1
                            ELSE instance_id_list
                     /\ logged' = IF what = "log" THEN logged + 1 ELSE logged
                     /\ UNCHANGED <<spawn_pc, raised, terminated, queued, running>>
    /\ UNCHANGED <<num, processes, finished>>
    /\ UNCHANGED notSpawnVars

\* The loop is over: the "with Pool" block exits (terminate) and the tuple
\* is returned.
SpawnReturn ==
    /\ spawn_pc = "pool"
    /\ LoopDone(iteration, num)
    /\ spawn_pc' = "returned"
    /\ terminated' = queued + running
    /\ queued' = 0
    /\ running' = 0
    /\ UNCHANGED <<num, processes, jobs, iteration, instance_id_list, logged,
                   finished, raised>>
    /\ UNCHANGED notSpawnVars

NextSpawn ==
    \/ create_runners_single
    \/ \E n \in 0..MaxNum : create_runners_batch(n)
    \/ WorkerStart
    \/ WorkerFinish
    \/ CollectNext
    \/ SpawnReturn

InitSpawn ==
    SpawnIdle /\ EmptyWorld /\ NoGetRunners /\ NoDeleteRunners /\ NoPass /\ NoUnits

SpecSpawn == InitSpawn /\ [][NextSpawn]_vars

(***************************************************************************)
(* Spec: get_runners over every cloud view and GitHub view.                *)
(***************************************************************************)
\* Faulty variant: the registrations without an instance are removed on the way.
get_runners_call_removing(github_states, cloud_states) ==
    LET r == get_runners(cloud, github, github_states, cloud_states)
    IN  /\ op' = "get_runners"
        /\ call' = [github_states |-> github_states, cloud_states |-> cloud_states]
        /\ runner_instances' = r.runners
        /\ cloud_only' = r.cloud_only
        /\ github_only' = r.github_only
        /\ previous' = [valid |-> FALSE, runners |-> <<>>]
        /\ github' = SelectSeq(github, LAMBDA g : g.instance_id.name \notin r.github_only)
        /\ UNCHANGED cloud

\* Faulty variant: the instances that are not registered are deleted on the way.
get_runners_call_reaping(github_states, cloud_states) ==
    LET r == get_runners(cloud, github, github_states, cloud_states)
    IN  /\ op' = "get_runners"
        /\ call' = [github_states |-> github_states, cloud_states |-> cloud_states]
        /\ runner_instances' = r.runners
        /\ cloud_only' = r.cloud_only
        /\ github_only' = r.github_only
        /\ previous' =
               IF /\ github_states = None
                  /\ cloud_states = None
                  /\ op = "get_runners"
                  /\ Unfiltered
               THEN [valid |-> TRUE, runners |-> runner_instances]
               ELSE [valid |-> FALSE, runners |-> <<>>]
        /\ cloud' = SelectSeq(cloud, LAMBDA c : c.name \notin r.cloud_only)
        /\ UNCHANGED github

\* A call of get_runners: it reads the two views and changes neither.
get_runners_call(github_states, cloud_states) ==
    LET r == get_runners(cloud, github, github_states, cloud_states)
    IN  /\ op' = "get_runners"
        /\ call' = [github_states |-> github_states, cloud_states |-> cloud_states]
        /\ runner_instances' = r.runners
        /\ cloud_only' = r.cloud_only
        /\ github_only' = r.github_only
        /\ previous' =
               IF /\ github_states = None
                  /\ cloud_states = None
                  /\ op = "get_runners"
                  /\ Unfiltered
               THEN [valid |-> TRUE, runners |-> runner_instances]
               ELSE [valid |-> FALSE, runners |-> <<>>]
        /\ UNCHANGED worldVars

GetRunners ==
    /\ \E github_states \in GithubFilters, cloud_states \in CloudFilters :
           get_runners_call(github_states, cloud_states)
    /\ UNCHANGED <<spawnVars, passVars, deleteVars, unitVars>>

\* The instances and registrations Spec starts from: an instance is being
\* created, runs with its runner process found, or is in error; a runner is
\* offline, idle or busy.
SpecCloudCombos ==
    {c \in CloudCombos :
        /\ c.state \in {"created", "active", "error"}
        /\ c.state # "error" => c.health = "healthy"}

SpecGithubCombos == {g \in GithubCombos : g.status = "offline" => ~g.busy}

Init ==
    /\ SpawnIdle
    /\ World(Names, SpecCloudCombos, SpecGithubCombos)
    /\ NoGetRunners
    /\ NoDeleteRunners
    /\ NoPass
    /\ NoUnits

Next == GetRunners

Spec == Init /\ [][Next]_vars

(***************************************************************************)
(* SpecDelete: delete_runners, one runner at a time, and unfiltered        *)
(* get_runners calls between the passes.                                   *)
(***************************************************************************)
\* The removal tokens GitHub hands out.
Tokens == {"token-a", "token-b"}

\* Faulty variant: the elements taken are listed twice.
SliceRepeated(seq, n) ==
    IF n >= 0 THEN SubSeq(seq, 1, Min(n, Len(seq))) \o SubSeq(seq, 1, Min(n, Len(seq)))
    ELSE SubSeq(seq, 1, IF Len(seq) + n > 0 THEN Len(seq) + n ELSE 0)

\* Faulty variant: the last n elements are taken.
SliceFromEnd(seq, n) ==
    IF n >= 0 THEN SubSeq(seq, Len(seq) - Min(n, Len(seq)) + 1, Len(seq))
    ELSE SubSeq(seq, 1, IF Len(seq) + n > 0 THEN Len(seq) + n ELSE 0)

\* seq[:n] of Python: the first n elements, all but the last -n when n < 0.
Slice(seq, n) ==
    IF n >= 0 THEN SubSeq(seq, 1, Min(n, Len(seq)))
    ELSE SubSeq(seq, 1, IF Len(seq) + n > 0 THEN Len(seq) + n ELSE 0)

\* What the steps of a deletion end with: get_ssh_connection, the metrics pull
\* (_PullFileError and GetMetricsStorageError are caught inside
\* _pull_runner_metrics, SshError leaves it), the removal script and
\* delete_instance.
SshOutcomes == {"ok", "SshError"}

PullOutcomes == {"ok", "PullFileError", "GetMetricsStorageError", "SshError"}

ScriptOutcomes == {"ok", "GithubRunnerRemoveError"}

ProviderOutcomes == {"ok", "OpenstackError"}

\* Faulty variant: an SshError ends the deletion, the instance is left alone.
_delete_runner_ssh_fatal(remove_token_, ssh, pull, script, provider) ==
    LET connected == ssh = "ok"
        pulled == connected /\ pull # "SshError"
    IN  [steps |-> <<"get_ssh_connection">>
                   \o (IF connected THEN <<"pull_runner_metrics">> ELSE <<>>)
                   \o (IF pulled THEN <<"removal_script", "delete_instance">> ELSE <<>>),
         script_token |-> IF pulled THEN remove_token_ ELSE "none",
         deregistered |-> pulled /\ script = "ok",
         deleted |-> pulled /\ provider = "ok",
         raised |-> IF pulled THEN "none" ELSE "SshError"]

\* Faulty variant: the instance is deleted first, the rest follows.
_delete_runner_delete_first(remove_token_, ssh, pull, script, provider) ==
    LET connected == ssh = "ok"
        pulled == connected /\ pull # "SshError"
    IN  [steps |-> <<"delete_instance", "get_ssh_connection">>
                   \o (IF connected THEN <<"pull_runner_metrics">> ELSE <<>>)
                   \o (IF pulled THEN <<"removal_script">> ELSE <<>>),
         script_token |-> IF pulled THEN remove_token_ ELSE "none",
         deregistered |-> pulled /\ script = "ok",
         deleted |-> provider = "ok",
         raised |-> "none"]

\* OpenstackRunnerManager._delete_runner: the steps taken, in order, and what
\* became of the runner.  The metrics pull follows the SSH connection, the
\* removal script (run with the token) follows a pull that left no SshError,
\* and delete_instance is tried in every case; its OpenstackError is logged.
_delete_runner(remove_token_, ssh, pull, script, provider) ==
    LET connected == ssh = "ok"
        pulled == connected /\ pull # "SshError"
    IN  [steps |-> <<"get_ssh_connection">>
                   \o (IF connected THEN <<"pull_runner_metrics">> ELSE <<>>)
                   \o (IF pulled THEN <<"removal_script">> ELSE <<>>)
                   \o <<"delete_instance">>,
         script_token |-> IF pulled THEN remove_token_ ELSE "none",
         deregistered |-> pulled /\ script = "ok",
         deleted |-> provider = "ok",
         raised |-> "none"]

Without(view, name, gone) ==
    IF gone THEN SelectSeq(view, LAMBDA x : x.instance_id.name # name) ELSE view

\* RunnerManager.delete_runners up to the loop of _delete_runners: the first
\* num runners of get_runners() and one removal token.
delete_runners(n) ==
    /\ delete_pc = "idle"
    /\ LET r == get_runners(cloud, github, None, None)
       IN  /\ runners_list' = Slice(r.runners, n)
           /\ runner_instances' = r.runners
           /\ cloud_only' = r.cloud_only
           /\ github_only' = r.github_only
    /\ call' = [github_states |-> None, cloud_states |-> None]
    /\ \E token \in Tokens : remove_token' = token
    /\ tokens_requested' = 1
    /\ op' = "delete_runners"
    /\ previous' = [valid |-> FALSE, runners |-> <<>>]
    /\ delete_pc' = "deleting"
    /\ delete_num' = n
    /\ index' = 1
    /\ delete_calls' = <<>>
    /\ runner_metrics_list' = <<>>
    /\ UNCHANGED <<worldVars, spawnVars, passVars, unitVars>>

\* Faulty variant: a removal token is requested for each runner.
delete_next_runner_own_token ==
    /\ delete_pc = "deleting"
    /\ index <= Len(runners_list)
    /\ LET runner == runners_list[index]
       IN  \E token \in Tokens,
              ssh \in SshOutcomes,
              pull \in PullOutcomes,
              script \in ScriptOutcomes,
              provider \in ProviderOutcomes,
              metrics \in BOOLEAN :
             LET d == _delete_runner(token, ssh, pull, script, provider)
             IN  /\ remove_token' = token
                 /\ tokens_requested' = tokens_requested + 1
                 /\ delete_calls' =
                        Append(delete_calls,
                               [instance_id |-> runner.instance_id,
                                remove_token |-> token,
                                script_token |-> d.script_token,
                                delete_instance |->
                                    "delete_instance" \in Range(d.steps)])
                 /\ github' = Without(github, runner.instance_id.name, d.deregistered)
                 /\ cloud' = Without(cloud, runner.instance_id.name, d.deleted)
                 /\ runner_metrics_list' =
                        IF metrics THEN Append(runner_metrics_list, runner.name)
                        ELSE runner_metrics_list
                 /\ delete_pc' = IF d.raised = "none" THEN delete_pc ELSE "raised"
    /\ index' = index + 1
    /\ UNCHANGED <<delete_num, runners_list, getVars, spawnVars, passVars,
                   unitVars>>

\* One iteration of the loop of _delete_runners: the cloud manager's
\* delete_runner for the next runner, with the token of the call.  metrics
\* tells whether the deletion returned metrics of the runner.  The loop
\* catches nothing: an error that left delete_runner would leave the call.
delete_next_runner ==
    /\ delete_pc = "deleting"
    /\ index <= Len(runners_list)
    /\ LET runner == runners_list[index]
       IN  \E ssh \in SshOutcomes,
              pull \in PullOutcomes,
              script \in ScriptOutcomes,
              provider \in ProviderOutcomes,
              metrics \in BOOLEAN :
             LET d == _delete_runner(remove_token, ssh, pull, script, provider)
             IN  /\ delete_calls' =
                        Append(delete_calls,
                               [instance_id |-> runner.instance_id,
                                remove_token |-> remove_token,
                                script_token |-> d.script_token,
                                delete_instance |->
                                    "delete_instance" \in Range(d.steps)])
                 /\ github' = Without(github, runner.instance_id.name, d.deregistered)
                 /\ cloud' = Without(cloud, runner.instance_id.name, d.deleted)
                 /\ runner_metrics_list' =
                        IF metrics THEN Append(runner_metrics_list, runner.name)
                        ELSE runner_metrics_list
                 /\ delete_pc' = IF d.raised = "none" THEN delete_pc ELSE "raised"
    /\ index' = index + 1
    /\ UNCHANGED <<delete_num, runners_list, remove_token,
                   tokens_requested, getVars, spawnVars, passVars, unitVars>>

\* The loop is over: the metrics collected are issued and the call returns.
delete_runners_return ==
    /\ delete_pc = "deleting"
    /\ index > Len(runners_list)
    /\ delete_pc' = "idle"
    /\ UNCHANGED <<delete_num, runners_list, remove_token, tokens_requested, index,
                   delete_calls, runner_metrics_list, worldVars, getVars, spawnVars, passVars,
                   unitVars>>

\* get_runners() called between two passes.
GetRunnersUnfiltered ==
    /\ delete_pc = "idle"
    /\ get_runners_call(None, None)
    /\ UNCHANGED <<spawnVars, passVars, deleteVars, unitVars>>

\* The fleets SpecDelete starts from: running instances, idle runners.
DeleteCloudCombos == {c \in CloudCombos : c.state = "active" /\ c.health = "healthy"}

DeleteGithubCombos == {g \in GithubCombos : g.status = "online" /\ ~g.busy}

InitDelete ==
    /\ SpawnIdle
    /\ World(Names, DeleteCloudCombos, DeleteGithubCombos)
    /\ NoGetRunners
    /\ NoDeleteRunners
    /\ NoPass
    /\ NoUnits

NextDelete ==
    \/ \E n \in -1..MaxRunners : delete_runners(n)
    \/ delete_next_runner
    \/ delete_runners_return
    \/ GetRunnersUnfiltered

SpecDelete == InitDelete /\ [][NextDelete]_vars

(***************************************************************************)
(* SpecFlush: flush_runners.  The engine picks the busy flag and requests   *)
(* the removal token; the selection and the removal are the cloud          *)
(* manager's.                                                              *)
(***************************************************************************)
FlushMode == {"FLUSH_IDLE", "FLUSH_BUSY"}

\* What a caller can hand to flush_runners: a member of FlushMode, or a value
\* that is none of them.
FlushModes == FlushMode \cup {"other"}

\* The record the match statement writes: critical for an unknown mode.
FlushLog(mode) == IF mode \in FlushMode THEN "info" ELSE "critical"

\* Faulty variant: busy runners are included in every mode.
FlushBusyAlways(mode) == TRUE

\* "busy = False; if flush_mode == FlushMode.FLUSH_BUSY: busy = True"
FlushBusy(mode) == mode = "FLUSH_BUSY"

\* CloudRunnerManager.flush_runners(remove_token, busy): the names of the
\* instances removed, the idle ones and, with busy set, the busy ones too.
cloud_flush_runners(cl, busy_names, busy) ==
    {name \in CloudNames(cl) : busy \/ name \notin busy_names}

\* RunnerManager.flush_runners
flush_runners(mode) ==
    /\ delete_pc = "idle"
    /\ flush_mode' = mode
    /\ flush_log' = FlushLog(mode)
    /\ flush_busy' = FlushBusy(mode)
    /\ \E token \in Tokens : remove_token' = token
    /\ tokens_requested' = 1
    /\ LET gone == cloud_flush_runners(cloud, busy_instances, FlushBusy(mode))
       IN  /\ flushed' = gone
           /\ cloud' = SelectSeq(cloud, LAMBDA i : i.name \notin gone)
           /\ github' = SelectSeq(github, LAMBDA r : r.instance_id.name \notin gone)
           /\ busy_instances' = busy_instances \ gone
    /\ op' = "flush_runners"
    /\ previous' = [valid |-> FALSE, runners |-> <<>>]
    /\ UNCHANGED <<call, runner_instances, cloud_only, github_only>>
    /\ UNCHANGED <<delete_pc, delete_num, runners_list, index, delete_calls,
                   runner_metrics_list>>
    /\ UNCHANGED <<spawnVars, cleanupVars, runnerVars, unitVars>>

\* The fleets SpecFlush starts from: running instances, with or without a
\* job; GitHub reports a registered runner busy when its instance runs one.
FlushCloudCombos == DeleteCloudCombos

FlushGithubCombos == {g \in GithubCombos : g.status = "online"}

InitFlush ==
    /\ SpawnIdle
    /\ World(Names, FlushCloudCombos, FlushGithubCombos)
    /\ NoGetRunners
    /\ NoDeleteRunners
    /\ NoFlushRunners
    /\ NoCleanup
    /\ NoDeleteRunner
    /\ NoUnits
    /\ busy_instances \in SUBSET CloudNames(cloud)
    /\ \A i \in 1..Len(github) :
           github[i].instance_id.name \in CloudNames(cloud) =>
               (github[i].busy <=> github[i].instance_id.name \in busy_instances)

NextFlush == \E mode \in FlushModes : flush_runners(mode)

SpecFlush == InitFlush /\ [][NextFlush]_vars

(***************************************************************************)
(* SpecCleanup: cleanup.  The engine reconciles the offline registrations, *)
(* requests a removal token and hands over to the cloud manager, which     *)
(* classifies its instances one by one and deletes the unhealthy ones one  *)
(* by one.                                                                 *)
(***************************************************************************)
\* "self._github.get_runners([GitHubRunnerState.OFFLINE])"
OfflineFilter == Filter({"offline"})

\* Faulty variant: no runner is taken for a non-reactive one.
NonReactiveNever(github_runner) == FALSE

\* "if not github_runner.instance_id.reactive"
NonReactive(github_runner) == ~github_runner.instance_id.reactive

\* Faulty variant: an instance in the created state is not spared.
StillStartingActiveOnly(cloud_runner) ==
    cloud_runner.cloud_state = "active" /\ cloud_runner.health = "healthy"

\* Faulty variant: an active instance is spared whatever its health.
StillStartingAnyHealth(cloud_runner) ==
    cloud_runner.cloud_state \in {"created", "active"}

\* The reactive process may still be creating or starting the runner: the
\* instance is created, or active and healthy.
StillStarting(cloud_runner) ==
    \/ cloud_runner.cloud_state = "created"
    \/ cloud_runner.cloud_state = "active" /\ cloud_runner.health = "healthy"

\* Faulty variant: a reactive runner with no instance is marked too.
MarkedUnmatched(github_runner, keys, cloud_instances) ==
    IF NonReactive(github_runner) THEN TRUE
    ELSE IF github_runner.instance_id \notin Range(keys) THEN TRUE
    ELSE ~StillStarting(DictGet(keys, cloud_instances, github_runner.instance_id))

\* One iteration of the loop over github_runners_offline: whether the runner
\* is appended to github_runners_to_delete.  keys and cloud_instances are
\* cloud_instances_map.
Marked(github_runner, keys, cloud_instances) ==
    IF NonReactive(github_runner) THEN TRUE
    ELSE IF github_runner.instance_id \notin Range(keys) THEN FALSE
    ELSE ~StillStarting(DictGet(keys, cloud_instances, github_runner.instance_id))

\* RunnerManager._cleanup_github_offline_runners: github_runners_to_delete.
_cleanup_github_offline_runners(cl, gh) ==
    LET cloud_instances == get_runners(cl, gh, None, None).runners
        keys == [i \in 1..Len(cloud_instances) |-> cloud_instances[i].instance_id]
    IN  SelectSeq(github_get_runners(gh, OfflineFilter),
                  LAMBDA github_runner : Marked(github_runner, keys, cloud_instances))

\* GitHubRunnerManager.delete_runners(records): the registrations left.
github_delete_runners(gh, records) ==
    SelectSeq(gh, LAMBDA r : r \notin Range(records))

\* Faulty variant: the instances of the registrations deleted are deleted too.
cleanup_with_instances ==
    /\ cleanup_pc = "idle"
    /\ delete_pc = "idle"
    /\ LET marked == _cleanup_github_offline_runners(cloud, github)
       IN  /\ github_runners_to_delete' = marked
           /\ github' = github_delete_runners(github, marked)
           /\ cloud' = SelectSeq(cloud, LAMBDA i :
                            \A k \in 1..Len(marked) : marked[k].instance_id # i.instance_id)
    /\ cloud_before' = cloud
    /\ github_before' = github
    /\ cleanup_pc' = "reconciled"
    /\ op' = "cleanup"
    /\ previous' = [valid |-> FALSE, runners |-> <<>>]
    /\ UNCHANGED <<call, runner_instances, cloud_only, github_only>>
    /\ UNCHANGED <<runner_list, health_index, tries, probed, healthy, unhealthy,
                   unhealthy_index, provider_deletes, script_run, cleanup_raised>>
    /\ UNCHANGED <<spawnVars, deleteVars, flushVars, runnerVars, unitVars>>

\* RunnerManager.cleanup, its first statement: the offline registrations are
\* reconciled with the cloud instances.
cleanup ==
    /\ cleanup_pc = "idle"
    /\ delete_pc = "idle"
    /\ LET marked == _cleanup_github_offline_runners(cloud, github)
       IN  /\ github_runners_to_delete' = marked
           /\ github' = github_delete_runners(github, marked)
    /\ cloud_before' = cloud
    /\ github_before' = github
    /\ cleanup_pc' = "reconciled"
    /\ op' = "cleanup"
    /\ previous' = [valid |-> FALSE, runners |-> <<>>]
    /\ UNCHANGED <<call, runner_instances, cloud_only, github_only>>
    /\ UNCHANGED <<runner_list, health_index, tries, probed, healthy, unhealthy,
                   unhealthy_index, provider_deletes, script_run, cleanup_raised>>
    /\ UNCHANGED <<cloud, spawnVars, deleteVars, flushVars, runnerVars, unitVars>>

\* The removal token GitHub hands to a cleanup.
CleanupTokens == {"token-a"}

\* RunnerManager.cleanup goes on: a removal token is requested and the cloud
\* manager's cleanup lists the instances to classify.
cloud_cleanup ==
    /\ cleanup_pc = "reconciled"
    /\ \E token \in CleanupTokens : remove_token' = token
    /\ tokens_requested' = 1
    /\ runner_list' = cloud
    /\ health_index' = 1
    /\ cleanup_pc' = IF cloud = <<>> THEN "delete" ELSE "health"
    /\ UNCHANGED <<cloud_before, github_before, github_runners_to_delete, tries,
                   probed, healthy, unhealthy, unhealthy_index, provider_deletes,
                   script_run, cleanup_raised>>
    /\ UNCHANGED <<delete_pc, delete_num, runners_list, index, delete_calls,
                   runner_metrics_list>>
    /\ UNCHANGED <<worldVars, getVars, spawnVars, flushVars, runnerVars, unitVars>>

\* The cloud states that make an instance unhealthy without a probe.
UnhealthyStates == {"deleted", "error", "stopped"}

\* @retry(tries=3, ...) of _health_check
HealthCheckTries == 3

\* utilities.retry: the error of an attempt is raised once the attempts are
\* used up, and the call is made again before that.
RetryExhausted(attempt, tries_) == attempt >= tries_

\* What "ps aux" run on the instance ends with.
PsOutcomes == {"ok", "failed"}

\* OpenstackRunnerManager._run_health_check: "ps aux" ran and lists a runner
\* process, which it does when the instance is healthy.
_run_health_check(ps, runner) == ps = "ok" /\ runner.health = "healthy"

\* The instance a listed runner is when the probe reaches it: "ps aux" runs
\* on the instance as it is then, not as it was listed.
Probed(runner) ==
    IF \E i \in 1..Len(cloud) : cloud[i].name = runner.name
    THEN [runner EXCEPT !.health =
              cloud[CHOOSE i \in 1..Len(cloud) : cloud[i].name = runner.name].health]
    ELSE runner

\* One step of the loop of _get_runner_health: an instance in one of the
\* unhealthy states is classified at once; for another one _health_check is
\* attempted, and its result classifies the instance.  An SshError makes
\* retry attempt again, and leaves the cleanup when the attempts are used up.
_get_runner_health ==
    /\ cleanup_pc = "health"
    /\ LET runner == runner_list[health_index]
           next_pc == IF health_index + 1 > Len(runner_list) THEN "delete"
                      ELSE "health"
       IN  IF runner.state \in UnhealthyStates
           THEN /\ unhealthy' = Append(unhealthy, runner.name)
                /\ health_index' = health_index + 1
                /\ cleanup_pc' = next_pc
                /\ UNCHANGED <<healthy, tries, probed, cleanup_raised>>
           ELSE \E ssh \in SshOutcomes, ps \in PsOutcomes :
                  /\ probed' = probed \cup {runner.name}
                  /\ IF ssh = "SshError"
                     THEN /\ tries' = tries + 1
                          /\ IF RetryExhausted(tries + 1, HealthCheckTries)
                             THEN /\ cleanup_pc' = "raised"
                                  /\ cleanup_raised' = "SshError"
                             ELSE UNCHANGED <<cleanup_pc, cleanup_raised>>
                          /\ UNCHANGED <<healthy, unhealthy, health_index>>
                     ELSE /\ tries' = 0
                          /\ IF _run_health_check(ps, Probed(runner))
                             THEN /\ healthy' = Append(healthy, runner.name)
                                  /\ UNCHANGED unhealthy
                             ELSE /\ unhealthy' = Append(unhealthy, runner.name)
                                  /\ UNCHANGED healthy
                          /\ health_index' = health_index + 1
                          /\ cleanup_pc' = next_pc
                          /\ UNCHANGED cleanup_raised
    /\ UNCHANGED <<cloud_before, github_before, github_runners_to_delete,
                   runner_list, unhealthy_index, provider_deletes, script_run>>
    /\ UNCHANGED <<worldVars, getVars, spawnVars, deleteVars, flushVars,
                   runnerVars, unitVars>>

\* One iteration of "for runner in runners.unhealthy": _delete_runner with
\* the token of the cleanup.
cleanup_delete_runner ==
    /\ cleanup_pc = "delete"
    /\ unhealthy_index <= Len(unhealthy)
    /\ LET name == unhealthy[unhealthy_index]
       IN  \E ssh \in SshOutcomes,
              pull \in PullOutcomes,
              script \in ScriptOutcomes,
              provider \in ProviderOutcomes :
             LET d == _delete_runner(remove_token, ssh, pull, script, provider)
                 ran(step) == step \in Range(d.steps)
             IN  /\ script_run' = [name |-> name, script |-> ran("removal_script")]
                 /\ provider_deletes' =
                        IF ran("delete_instance") THEN Append(provider_deletes, name)
                        ELSE provider_deletes
                 /\ github' = Without(github, name, d.deregistered)
                 /\ cloud' = Without(cloud, name, d.deleted)
                 /\ cleanup_pc' = IF d.raised = "none" THEN "delete" ELSE "raised"
                 /\ cleanup_raised' = d.raised
    /\ unhealthy_index' = unhealthy_index + 1
    /\ UNCHANGED <<cloud_before, github_before, github_runners_to_delete,
                   runner_list, health_index, tries, probed, healthy, unhealthy>>
    /\ UNCHANGED <<getVars, spawnVars, deleteVars, flushVars, runnerVars, unitVars>>

\* The unhealthy instances are dealt with: the cloud manager returns the
\* metrics of the healthy ones and the engine issues them.
cleanup_return ==
    /\ cleanup_pc = "delete"
    /\ unhealthy_index > Len(unhealthy)
    /\ cleanup_pc' = "returned"
    /\ UNCHANGED <<cloud_before, github_before, github_runners_to_delete,
                   runner_list, health_index, tries, probed, healthy, unhealthy,
                   unhealthy_index, provider_deletes, script_run, cleanup_raised>>
    /\ UNCHANGED <<worldVars, getVars, spawnVars, deleteVars, flushVars,
                   runnerVars, unitVars>>

\* The fleets SpecCleanup starts from: instances being created, running
\* with and without a runner process, and stopped; runners GitHub reports
\* offline, and idle ones.
CleanupCloudCombos ==
    {c \in CloudCombos :
        \/ c.state = "created" /\ c.health = "unhealthy"
        \/ c.state = "active"
        \/ c.state = "stopped"}

CleanupGithubCombos == {g \in GithubCombos : ~g.busy}

InitCleanup ==
    /\ SpawnIdle
    /\ World(Names, CleanupCloudCombos, CleanupGithubCombos)
    /\ NoGetRunners
    /\ NoDeleteRunners
    /\ NoPass
    /\ NoUnits

NextCleanup ==
    \/ cleanup
    \/ cloud_cleanup
    \/ _get_runner_health
    \/ cleanup_delete_runner
    \/ cleanup_return

SpecCleanup == InitCleanup /\ [][NextCleanup]_vars

(***************************************************************************)
(* SpecDeleteRunner: one delete_runner call of the cloud manager, for the  *)
(* instance of a fleet of one, with every way its steps can end.           *)
(***************************************************************************)
DeleteArgs ==
    [remove_token : Tokens, ssh : SshOutcomes, pull : PullOutcomes,
     script : ScriptOutcomes, provider : ProviderOutcomes]

\* OpenstackRunnerManager.delete_runner
delete_runner ==
    /\ ~last_delete.called
    /\ LET name == cloud[1].name
           d == _delete_runner(delete_args.remove_token, delete_args.ssh,
                               delete_args.pull, delete_args.script,
                               delete_args.provider)
       IN  /\ last_delete' = [called |-> TRUE, steps |-> d.steps, raised |-> d.raised]
           /\ github' = Without(github, name, d.deregistered)
           /\ cloud' = Without(cloud, name, d.deleted)
    /\ UNCHANGED <<delete_args, getVars, spawnVars, deleteVars, flushVars,
                   cleanupVars, unitVars>>

InitDeleteRunner ==
    /\ SpawnIdle
    /\ World({1}, DeleteCloudCombos, DeleteGithubCombos)
    /\ cloud # <<>>
    /\ NoGetRunners
    /\ NoDeleteRunners
    /\ NoFlushRunners
    /\ busy_instances = {}
    /\ NoCleanup
    /\ delete_args \in DeleteArgs
    /\ last_delete = NoDelete
    /\ NoUnits

NextDeleteRunner == delete_runner

SpecDeleteRunner == InitDeleteRunner /\ [][NextDeleteRunner]_vars

(***************************************************************************)
(* SpecPass: one pass of the engine over a fleet, either a delete_runners  *)
(* call or a cleanup call, step by step.                                   *)
(***************************************************************************)
\* The fleets SpecPass starts from: running instances with a runner process
\* and without one, idle runners.
PassCloudCombos == {c \in CloudCombos : c.state = "active"}

InitPass ==
    /\ SpawnIdle
    /\ World(Names, PassCloudCombos, DeleteGithubCombos)
    /\ NoGetRunners
    /\ NoDeleteRunners
    /\ NoPass
    /\ NoUnits

\* The pass of the behaviour is the first operation called on the engine.
NextPass ==
    \/ op = "none" /\ \E n \in -1..MaxRunners : delete_runners(n)
    \/ delete_next_runner
    \/ delete_runners_return
    \/ op = "none" /\ cleanup
    \/ cloud_cleanup
    \/ _get_runner_health
    \/ cleanup_delete_runner
    \/ cleanup_return

SpecPass == InitPass /\ [][NextPass]_vars

\* The engine after construction, no operation called.
EngineIdle ==
    SpawnIdle /\ EmptyWorld /\ NoGetRunners /\ NoDeleteRunners /\ NoPass

\* MAX_METRICS_FILE_SIZE
MAX_METRICS_FILE_SIZE == 1024

(***************************************************************************)
(* SpecPull: _pull_runner_metrics for the two metrics files of an          *)
(* instance, with every way the remote commands can end and file sizes     *)
(* around the limit.                                                       *)
(***************************************************************************)
\* What "stat -c %s" ends with: a size printed, a failed command, an output
\* that is no number, or an SSH failure.
StatOutcomes == {"ok", "failed", "invalid", "SshError"}

\* What ssh_conn.get ends with.
GetOutcomes == {"ok", "OSError", "SshError"}

\* The sizes of a metrics file: below the limit, at the limit and above.
FileSizes ==
    {MAX_METRICS_FILE_SIZE - 1, MAX_METRICS_FILE_SIZE, MAX_METRICS_FILE_SIZE + 1}

\* A metrics file on the instance: what the two remote commands end with
\* and the size stat prints.
MetricsFiles == [stat : StatOutcomes, size : FileSizes, get : GetOutcomes]

\* OpenstackRunnerManager._ssh_pull_file: "pulled", or the error raised.
_ssh_pull_file(file, max_size) ==
    IF file.stat = "SshError" THEN "SshError"
    ELSE IF file.stat = "failed" THEN "PullFileError"
    ELSE IF file.stat = "invalid" THEN "PullFileError"
    ELSE IF file.size > max_size THEN "PullFileError"
    ELSE IF file.get = "SshError" THEN "SshError"
    ELSE IF file.get = "OSError" THEN "PullFileError"
    ELSE "pulled"

\* OpenstackRunnerManager._pull_runner_metrics: the files pulled and the
\* error raised.  The two pulls share one try block: a _PullFileError of the
\* first is caught after the block, an SshError is not caught.
_pull_runner_metrics(storage, pre_job, post_job) ==
    IF storage = "GetMetricsStorageError"
    THEN [pulled |-> {}, raised |-> "none"]
    ELSE LET first == _ssh_pull_file(pre_job, MAX_METRICS_FILE_SIZE)
             second == _ssh_pull_file(post_job, MAX_METRICS_FILE_SIZE)
         IN  IF first = "SshError" THEN [pulled |-> {}, raised |-> "SshError"]
             ELSE IF first = "PullFileError" THEN [pulled |-> {}, raised |-> "none"]
             ELSE IF second = "SshError"
                  THEN [pulled |-> {"pre-job-metrics.json"}, raised |-> "SshError"]
             ELSE IF second = "PullFileError"
                  THEN [pulled |-> {"pre-job-metrics.json"}, raised |-> "none"]
             ELSE [pulled |-> {"pre-job-metrics.json", "post-job-metrics.json"},
                   raised |-> "none"]

\* One call of _pull_runner_metrics.
pull_runner_metrics ==
    /\ ~pull_result.called
    /\ LET r == _pull_runner_metrics(pull_args.storage, pull_args.pre_job,
                                     pull_args.post_job)
       IN  pull_result' = [called |-> TRUE, pulled |-> r.pulled, raised |-> r.raised]
    /\ UNCHANGED <<pull_args, engineVars, startVars, issueVars, lockVars, jobVars,
                   charmVars>>

InitPull ==
    /\ EngineIdle
    /\ NoStart
    /\ NoIssue
    /\ NoLock
    /\ NoJobsSubmitted
    /\ NoCharmState
    /\ pull_args \in [storage : {"ok", "GetMetricsStorageError"},
                       pre_job : MetricsFiles, post_job : MetricsFiles]
    /\ pull_result = [called |-> FALSE, pulled |-> {}, raised |-> "none"]

NextPull == pull_runner_metrics

SpecPull == InitPull /\ [][NextPull]_vars

(***************************************************************************)
(* SpecStart: create_runner of the cloud manager: the launch of the        *)
(* instance, then the attempts of _wait_runner_startup one by one.         *)
(***************************************************************************)
\* @retry(tries=10, delay=60, ...) of _wait_runner_startup
StartupTries == 10

\* The registration tokens GitHub hands out.
RegistrationTokens == {"registration-a", "registration-b"}

\* What an attempt meets: the SSH connection, "ps aux" run over it, and
\* whether its output names the startup process.
Probes ==
    {[ssh |-> "SshError", ps |-> "none", process |-> FALSE]}
    \cup {[ssh |-> "ok", ps |-> "failed", process |-> FALSE]}
    \cup [ssh : {"ok"}, ps : {"ok"}, process : BOOLEAN]

\* Faulty variant: the output of "ps aux" is not searched for the process.
_wait_runner_startup_unsearched(probe) ==
    IF probe.ssh = "SshError" THEN "RunnerStartError"
    ELSE IF probe.ps # "ok" THEN "RunnerStartError"
    ELSE "ok"

\* OpenstackRunnerManager._wait_runner_startup, one attempt: "ok", or the
\* error raised.
_wait_runner_startup(probe) ==
    IF probe.ssh = "SshError" THEN "RunnerStartError"
    ELSE IF probe.ps # "ok" THEN "RunnerStartError"
    ELSE IF ~probe.process THEN "RunnerStartError"
    ELSE "ok"

MetricOutcomes == {"ok", "IssueMetricEventError"}

StorageOutcomes == {"ok", "CreateMetricsStorageError", "FileNotFoundError"}

\* OpenstackRunnerManager._issue_runner_installed_metric: the event issued
\* and the timestamp file written, each unless it failed; nothing raised.
_issue_runner_installed_metric(metric, storage) ==
    [issued |-> metric = "ok", timestamp |-> storage = "ok"]

\* The instance create_runner launches.
Launched == CloudRunnerInstance(1, [state |-> "created", health |-> "unhealthy"])

Started == CloudRunnerInstance(1, [state |-> "active", health |-> "healthy"])

\* OpenstackRunnerManager.create_runner up to _wait_runner_startup: the
\* instance is launched, an OpenstackError becomes a RunnerCreateError.
create_runner ==
    /\ start_pc = "idle"
    /\ \E token \in RegistrationTokens, outcome \in ProviderOutcomes :
          /\ registration_token' = token
          /\ launch' = outcome
          /\ IF outcome = "OpenstackError"
             THEN /\ start_pc' = "raised"
                  /\ start_raised' = "RunnerCreateError"
                  /\ UNCHANGED cloud
             ELSE /\ start_pc' = "probing"
                  /\ cloud' = Append(cloud, Launched)
                  /\ UNCHANGED start_raised
    /\ UNCHANGED <<probes, failed_probes, last_probe, installed_metric>>
    /\ UNCHANGED <<github, spawnVars, getVars, deleteVars, passVars, pullVars,
                   issueVars, lockVars, jobVars, charmVars>>

\* One attempt of _wait_runner_startup under retry: the call returns when
\* the attempt succeeds (the installed metric is issued and the id
\* returned), the attempt is made again when it raised and attempts are
\* left, and its RunnerStartError leaves create_runner when none is.
wait_runner_startup ==
    /\ start_pc = "probing"
    /\ \E probe \in Probes :
          /\ last_probe' = probe
          /\ probes' = probes + 1
          /\ IF _wait_runner_startup(probe) = "ok"
             THEN /\ start_pc' = "returned"
                  /\ cloud' = [cloud EXCEPT ![Len(cloud)] = Started]
                  /\ \E metric \in MetricOutcomes, storage \in StorageOutcomes :
                        installed_metric' =
                            _issue_runner_installed_metric(metric, storage)
                  /\ UNCHANGED <<failed_probes, start_raised>>
             ELSE /\ failed_probes' = failed_probes + 1
                  /\ UNCHANGED <<cloud, installed_metric>>
                  /\ IF RetryExhausted(probes + 1, StartupTries)
                     THEN /\ start_pc' = "raised"
                          /\ start_raised' = _wait_runner_startup(probe)
                     ELSE UNCHANGED <<start_pc, start_raised>>
    /\ UNCHANGED <<registration_token, launch>>
    /\ UNCHANGED <<github, spawnVars, getVars, deleteVars, passVars, pullVars,
                   issueVars, lockVars, jobVars, charmVars>>

InitStart == EngineIdle /\ NoUnits

NextStart == create_runner \/ wait_runner_startup

SpecStart == InitStart /\ [][NextStart]_vars

(***************************************************************************)
(* SpecIssue: RunnerManager._issue_runner_metrics, record by record, over  *)
(* several invocations.                                                    *)
(***************************************************************************)
MaxInvocations == 2

MaxRecords == 2

\* The kinds of events the metrics pipeline issues for a runner.
EventKinds == {"RunnerStart", "RunnerStop"}

\* A RunnerMetrics record, as far as _issue_runner_metrics reads it.
RunnerMetrics == [pre_job : BOOLEAN]

\* The lists of at most MaxRecords records an iterator can give.
MetricsLists ==
    UNION {[1..n -> RunnerMetrics] : n \in 0..MaxRecords}

JobOutcomes == {"ok", "GithubMetricsError"}

\* Faulty variant: the error of github_metrics.job is not caught.
job_metrics_uncaught(extracted_metrics, outcome) ==
    IF extracted_metrics.pre_job
    THEN [requested |-> TRUE, job_metrics |-> outcome = "ok",
          raised |-> IF outcome = "ok" THEN "none" ELSE outcome]
    ELSE [requested |-> FALSE, job_metrics |-> FALSE, raised |-> "none"]

\* The job metrics part of the loop body: github_metrics.job is called for
\* a record with pre-job metrics, and its GithubMetricsError leaves
\* job_metrics None.
job_metrics(extracted_metrics, outcome) ==
    IF extracted_metrics.pre_job
    THEN [requested |-> TRUE, job_metrics |-> outcome = "ok", raised |-> "none"]
    ELSE [requested |-> FALSE, job_metrics |-> FALSE, raised |-> "none"]

\* Faulty variant: an event type is recorded, not counted.
TallyRecorded(stats, issued_events) ==
    [k \in DOMAIN stats \cup issued_events |->
        IF k \in issued_events THEN 1 ELSE stats[k]]

\* total_stats[event_type] = total_stats.get(event_type, 0) + 1 for every
\* event type of issued_events.
Tally(stats, issued_events) ==
    [k \in DOMAIN stats \cup issued_events |->
        IF k \in issued_events
        THEN (IF k \in DOMAIN stats THEN stats[k] ELSE 0) + 1
        ELSE stats[k]]

\* _issue_runner_metrics is called with an iterator: total_stats = {}.
issue_runner_metrics ==
    /\ issue_pc \in {"idle", "returned"}
    /\ invocations < MaxInvocations
    /\ invocations' = invocations + 1
    /\ metrics_left' \in MetricsLists
    /\ total_stats' = NoStats
    /\ issue_log' = <<>>
    /\ returned_stats' = total_stats
    /\ issue_pc' = "loop"
    /\ UNCHANGED <<engineVars, pullVars, startVars, lockVars, jobVars, charmVars>>

\* One turn of the loop of _issue_runner_metrics: the job metrics, then
\* runner_metrics.issue_events, whose result is tallied.
issue_events ==
    /\ issue_pc = "loop"
    /\ metrics_left # <<>>
    /\ \E outcome \in JobOutcomes, issued_events \in SUBSET EventKinds :
          LET extracted_metrics == Head(metrics_left)
              job == job_metrics(extracted_metrics, outcome)
          IN  IF job.raised # "none"
              THEN /\ issue_pc' = "raised"
                   /\ issue_log' = Append(issue_log,
                          [pre_job |-> extracted_metrics.pre_job,
                           requested |-> job.requested,
                           job_metrics |-> FALSE,
                           issued |-> FALSE, issued_events |-> {}])
                   /\ UNCHANGED <<metrics_left, total_stats>>
              ELSE /\ metrics_left' = Tail(metrics_left)
                   /\ total_stats' = Tally(total_stats, issued_events)
                   /\ issue_log' = Append(issue_log,
                          [pre_job |-> extracted_metrics.pre_job,
                           requested |-> job.requested,
                           job_metrics |-> job.job_metrics,
                           issued |-> TRUE, issued_events |-> issued_events])
                   /\ UNCHANGED issue_pc
    /\ UNCHANGED <<invocations, returned_stats>>
    /\ UNCHANGED <<engineVars, pullVars, startVars, lockVars, jobVars, charmVars>>

\* The iterator is used up: return total_stats.
issue_return ==
    /\ issue_pc = "loop"
    /\ metrics_left = <<>>
    /\ issue_pc' = "returned"
    /\ UNCHANGED <<invocations, metrics_left, total_stats, issue_log,
                   returned_stats>>
    /\ UNCHANGED <<engineVars, pullVars, startVars, lockVars, jobVars, charmVars>>

InitIssue == EngineIdle /\ NoUnits

NextIssue == issue_runner_metrics \/ issue_events \/ issue_return

SpecIssue == InitIssue /\ [][NextIssue]_vars

(***************************************************************************)
(* SpecLock: the lock endpoints of http_server.py.  Flask serves every     *)
(* request on a thread of its own, so a /lock/acquire that has to wait     *)
(* stays pending while other requests are served.  The lock is the one the *)
(* reconciliation service holds during a pass.                             *)
(***************************************************************************)
\* The parties that send requests to the server.
Clients == {"operator", "client"}

\* The clients and the reconciliation service, which takes the lock itself.
Parties == Clients \cup {"reconcile"}

\* Faulty variant: acquire returns whether the lock is free or not.
CanAcquireAlways(locked) == TRUE

\* Lock.acquire(blocking=True) returns only once the lock is unlocked.
CanAcquire(locked) == ~locked

\* Faulty variant: the lock is left as it was found.
acquire_unheld(locked) == locked

\* Lock.acquire: the lock is locked when the call returns.
acquire(locked) == TRUE

\* Lock.release: unlocks a locked lock, and raises RuntimeError on one that
\* is not locked.
release(locked) ==
    IF locked THEN [lock |-> FALSE, raised |-> "none"]
    ELSE [lock |-> FALSE, raised |-> "RuntimeError"]

\* Faulty variant: the answer does not read the lock.
lock_status_unread(locked) == [status |-> 200, body |-> "unlocked"]

\* lock_status: ("locked", 200) if the lock is locked, else ("unlocked", 200).
lock_status(locked) ==
    [status |-> 200, body |-> IF locked THEN "locked" ELSE "unlocked"]

Response(party, route, answer) ==
    [party |-> party, route |-> route, status |-> answer.status,
     body |-> answer.body]

\* GET /lock/status is served.
get_lock_status ==
    /\ \E party \in Clients :
          response' = Response(party, "status", lock_status(lock))
    /\ UNCHANGED <<lock, pending, reconcile_pc, holder, holding, acquired>>
    /\ UNCHANGED <<engineVars, pullVars, startVars, issueVars, jobVars, charmVars>>

\* GET /lock/acquire arrives: its thread calls acquire(blocking=True).
get_lock_acquire ==
    /\ \E party \in Clients \ pending :
          pending' = pending \cup {party}
    /\ response' = NoResponse
    /\ UNCHANGED <<lock, reconcile_pc, holder, holding, acquired>>
    /\ UNCHANGED <<engineVars, pullVars, startVars, issueVars, jobVars, charmVars>>

\* lock_acquire for one client: acquire returns and ("", 200) is answered.
lock_acquire(party) ==
    /\ party \in pending
    /\ CanAcquire(lock)
    /\ lock' = acquire(lock)
    /\ pending' = pending \ {party}
    /\ response' = Response(party, "acquire", [status |-> 200, body |-> ""])
    /\ holder' = party
    /\ holding' = holding \cup {party}
    /\ acquired' = acquired + 1
    /\ UNCHANGED reconcile_pc
    /\ UNCHANGED <<engineVars, pullVars, startVars, issueVars, jobVars, charmVars>>

\* lock_release for one client: release, then ("", 200); the RuntimeError
\* of release is not handled and Flask answers 500.
lock_release(party) ==
    /\ party \in Clients
    /\ LET released == release(lock)
       IN  /\ lock' = released.lock
           /\ response' = Response(party, "release",
                  IF released.raised = "none"
                  THEN [status |-> 200, body |-> ""]
                  ELSE [status |-> 500, body |-> released.raised])
    /\ holder' = "none"
    /\ holding' = holding \ {party}
    /\ acquired' = 0
    /\ UNCHANGED <<pending, reconcile_pc>>
    /\ UNCHANGED <<engineVars, pullVars, startVars, issueVars, jobVars, charmVars>>

\* The reconciliation service takes the lock for a pass.
reconcile_begin ==
    /\ reconcile_pc = "idle"
    /\ CanAcquire(lock)
    /\ lock' = acquire(lock)
    /\ reconcile_pc' = "pass"
    /\ response' = NoResponse
    /\ holder' = "reconcile"
    /\ holding' = holding \cup {"reconcile"}
    /\ acquired' = acquired + 1
    /\ UNCHANGED pending
    /\ UNCHANGED <<engineVars, pullVars, startVars, issueVars, jobVars, charmVars>>

\* The pass is over and the reconciliation service releases the lock.
reconcile_end ==
    /\ reconcile_pc = "pass"
    /\ lock' = release(lock).lock
    /\ reconcile_pc' = "idle"
    /\ response' = NoResponse
    /\ holder' = "none"
    /\ holding' = holding \ {"reconcile"}
    /\ acquired' = 0
    /\ UNCHANGED pending
    /\ UNCHANGED <<engineVars, pullVars, startVars, issueVars, jobVars, charmVars>>

\* start_http_server: the server runs on the lock it was given.
InitLock == EngineIdle /\ NoUnits

NextLock ==
    \/ get_lock_status
    \/ get_lock_acquire
    \/ \E party \in Clients : lock_acquire(party)
    \/ \E party \in Clients : lock_release(party)
    \/ reconcile_begin
    \/ reconcile_end

SpecLock == InitLock /\ [][NextLock]_vars

\* Faulty variant: a waiting thread is only sure to run if it can take the
\* lock from some moment on for ever.
FairLockWeak ==
    /\ \A party \in Clients : WF_vars(lock_acquire(party))
    /\ \A party \in Clients : WF_vars(party = holder /\ lock_release(party))
    /\ WF_vars(reconcile_end)

\* Fair scheduling of the threads: a thread blocked in acquire that could
\* take the lock again and again does take it, and whoever holds the lock
\* releases it.
FairLock ==
    /\ \A party \in Clients : SF_vars(lock_acquire(party))
    /\ \A party \in Clients : WF_vars(party = holder /\ lock_release(party))
    /\ WF_vars(reconcile_end)

SpecLockFair == InitLock /\ [][NextLock]_vars /\ FairLock

(***************************************************************************)
(* SpecBatch: the creation jobs of one create_runners call, step by step:  *)
(* the registration, the launch, the attempts of the startup probe and     *)
(* the except clause of _create_runner, with the instance booting          *)
(* meanwhile.  SpecCreate: one creation job while cleanup passes run in    *)
(* the reconciliation process; SpecCreateFair schedules both fairly.       *)
(*                                                                         *)
(* A job is known by the name InstanceID.build gives its runner.  The      *)
(* steps of a job do not read the reactive flag.                           *)
(***************************************************************************)
\* RunnerCreateError and RunnerStartError, the RunnerErrors of create_runner.
RunnerErrors == {"RunnerCreateError", "RunnerStartError"}

\* The runner get_registration_jittoken registers: offline until its agent
\* connects.
Registration(name) == SelfHostedRunner(name, [status |-> "offline", busy |-> FALSE])

\* The instance launch_instance creates: no runner process on it yet.
LaunchedInstance(name) ==
    CloudRunnerInstance(name, [state |-> "created", health |-> "unhealthy"])

\* A view with one more runner, listed by name.
Listed(view, runner) ==
    SelectSeq(view, LAMBDA x : x.instance_id.name < runner.instance_id.name)
    \o <<runner>>
    \o SelectSeq(view, LAMBDA x : x.instance_id.name > runner.instance_id.name)

\* The record of view with this name.
Of(view, name) ==
    view[CHOOSE i \in 1..Len(view) : view[i].instance_id.name = name]

JobUpdate(n, pc, error) ==
    /\ job_pc' = [job_pc EXCEPT ![n] = pc]
    /\ job_raised' = [job_raised EXCEPT ![n] = error]

\* _create_runner, its first statements: the InstanceID is built and
\* get_registration_jittoken registers the runner.  An error of the GitHub
\* client is no RunnerError and leaves the job at once.
get_registration_jittoken(n) ==
    /\ batch_pc \in {"idle", "running"}
    /\ job_pc[n] = "idle"
    /\ batch_pc' = "running"
    /\ \E registration \in {"ok", "OtherError"} :
          IF registration = "ok"
          THEN /\ github' = Listed(github, Registration(n))
               /\ JobUpdate(n, "registered", "none")
          ELSE /\ JobUpdate(n, "raised", registration)
               /\ UNCHANGED github
    /\ UNCHANGED <<cloud, returned_ids, job_probes, startup_process>>
    /\ UNCHANGED <<spawnVars, getVars, deleteVars, passVars, pullVars, startVars,
                   issueVars, lockVars, charmVars>>

\* The cloud manager's create_runner called by the job, up to
\* _wait_runner_startup: launch_instance, whose OpenstackError becomes a
\* RunnerCreateError.
launch_instance(n) ==
    /\ job_pc[n] = "registered"
    /\ \E outcome \in ProviderOutcomes :
          IF outcome = "OpenstackError"
          THEN /\ JobUpdate(n, "failing", "RunnerCreateError")
               /\ UNCHANGED cloud
          ELSE /\ cloud' = Listed(cloud, LaunchedInstance(n))
               /\ JobUpdate(n, "probing", "none")
    /\ UNCHANGED <<github, batch_pc, returned_ids, job_probes, startup_process>>
    /\ UNCHANGED <<spawnVars, getVars, deleteVars, passVars, pullVars, startVars,
                   issueVars, lockVars, charmVars>>

\* What an attempt of the startup probe can meet on the instance of job n:
\* no SSH connection to an instance that is gone, and the startup process in
\* the output of "ps aux" when it runs.
ProbesOf(n) ==
    {probe \in Probes :
        /\ probe.ssh = "ok" => n \in CloudNames(cloud)
        /\ (probe.ssh = "ok" /\ probe.ps = "ok") => probe.process = startup_process[n]}

\* One attempt of _wait_runner_startup of the job: create_runner returns
\* when it succeeds, retry attempts again when it fails, and the
\* RunnerStartError leaves create_runner when the attempts are used up.
wait_runner_startup_attempt(n) ==
    /\ job_pc[n] = "probing"
    /\ \E probe \in ProbesOf(n) :
          IF _wait_runner_startup(probe) = "ok"
          THEN /\ JobUpdate(n, "returned", "none")
               /\ UNCHANGED job_probes
          ELSE /\ job_probes' = [job_probes EXCEPT ![n] = @ + 1]
               /\ IF RetryExhausted(job_probes[n] + 1, StartupTries)
                  THEN JobUpdate(n, "failing", _wait_runner_startup(probe))
                  ELSE UNCHANGED <<job_pc, job_raised>>
    /\ UNCHANGED <<worldVars, batch_pc, returned_ids, startup_process>>
    /\ UNCHANGED <<spawnVars, getVars, deleteVars, passVars, pullVars, startVars,
                   issueVars, lockVars, charmVars>>

\* Faulty variant: the except clause re-raises and leaves the registration.
except_RunnerError_reraise(n) ==
    /\ job_pc[n] = "failing"
    /\ JobUpdate(n, "raised", job_raised[n])
    /\ UNCHANGED <<worldVars, batch_pc, returned_ids, job_probes, startup_process>>
    /\ UNCHANGED <<spawnVars, getVars, deleteVars, passVars, pullVars, startVars,
                   issueVars, lockVars, charmVars>>

\* "except RunnerError:" of _create_runner: the runner is deleted on GitHub
\* and the error raised again.
except_RunnerError(n) ==
    /\ job_pc[n] = "failing"
    /\ github' = github_delete_runners(
                     github, SelectSeq(github, LAMBDA r : r.instance_id = InstanceID(n)))
    /\ JobUpdate(n, "raised", job_raised[n])
    /\ UNCHANGED <<cloud, batch_pc, returned_ids, job_probes, startup_process>>
    /\ UNCHANGED <<spawnVars, getVars, deleteVars, passVars, pullVars, startVars,
                   issueVars, lockVars, charmVars>>

\* The provider reports the launched server as active.
instance_active(n) ==
    /\ n \in CloudNames(cloud)
    /\ Of(cloud, n).state = "created"
    /\ cloud' = [i \in 1..Len(cloud) |->
                    IF cloud[i].name = n THEN [cloud[i] EXCEPT !.state = "active"]
                    ELSE cloud[i]]
    /\ UNCHANGED <<github, jobVars>>
    /\ UNCHANGED <<spawnVars, getVars, deleteVars, passVars, pullVars, startVars,
                   issueVars, lockVars, charmVars>>

\* The userdata script of the instance reaches the startup script of the
\* runner (RUNNER_STARTUP_PROCESS).
startup_begin(n) ==
    /\ n \in CloudNames(cloud)
    /\ Of(cloud, n).state = "active"
    /\ ~startup_process[n]
    /\ startup_process' = [startup_process EXCEPT ![n] = TRUE]
    /\ UNCHANGED <<worldVars, batch_pc, returned_ids, job_pc, job_probes, job_raised>>
    /\ UNCHANGED <<spawnVars, getVars, deleteVars, passVars, pullVars, startVars,
                   issueVars, lockVars, charmVars>>

\* The startup script starts the listener (RUNNER_LISTENER_PROCESS), which
\* connects to GitHub with the registration of the runner: the runner is
\* online, and the health check finds its process.
listener_start(n) ==
    /\ n \in CloudNames(cloud)
    /\ n \in GithubNames(github)
    /\ startup_process[n]
    /\ Of(cloud, n).health = "unhealthy"
    /\ cloud' = [i \in 1..Len(cloud) |->
                    IF cloud[i].name = n THEN [cloud[i] EXCEPT !.health = "healthy"]
                    ELSE cloud[i]]
    /\ github' = [i \in 1..Len(github) |->
                     IF github[i].instance_id.name = n
                     THEN [github[i] EXCEPT !.status = "online"]
                     ELSE github[i]]
    /\ UNCHANGED jobVars
    /\ UNCHANGED <<spawnVars, getVars, deleteVars, passVars, pullVars, startVars,
                   issueVars, lockVars, charmVars>>

\* A listener whose registration was deleted is turned away by GitHub and
\* exits: no runner process is left on the instance.
listener_exit(n) ==
    /\ n \in CloudNames(cloud)
    /\ n \notin GithubNames(github)
    /\ Of(cloud, n).health = "healthy"
    /\ cloud' = [i \in 1..Len(cloud) |->
                    IF cloud[i].name = n THEN [cloud[i] EXCEPT !.health = "unhealthy"]
                    ELSE cloud[i]]
    /\ UNCHANGED <<github, jobVars>>
    /\ UNCHANGED <<spawnVars, getVars, deleteVars, passVars, pullVars, startVars,
                   issueVars, lockVars, charmVars>>

\* The jobs of the call that have not come to their end.
Running == {n \in Names : job_pc[n] \in {"registered", "probing", "failing"}}

\* What the job of n handed to the collecting loop.
JobOutcome(n) ==
    IF job_pc[n] = "returned" THEN "ok"
    ELSE IF job_raised[n] \in RunnerErrors THEN "RunnerError"
    ELSE "OtherError"

Over == {n \in Names : job_pc[n] \in {"returned", "raised"}}

\* _spawn_runners returns: every job is over, the ids of the jobs that
\* returned are in the tuple, the RunnerErrors are logged.
spawn_runners_return ==
    /\ batch_pc = "running"
    /\ Running = {}
    /\ \A n \in Over : Collect(JobOutcome(n)) # "propagate"
    /\ batch_pc' = "returned"
    /\ returned_ids' = {n \in Over : Collect(JobOutcome(n)) = "append"}
    /\ UNCHANGED <<worldVars, job_pc, job_probes, job_raised, startup_process>>
    /\ UNCHANGED <<spawnVars, getVars, deleteVars, passVars, pullVars, startVars,
                   issueVars, lockVars, charmVars>>

\* An error that is no RunnerError leaves _spawn_runners; the jobs that
\* still run are terminated with the pool.
spawn_runners_raise ==
    /\ batch_pc = "running"
    /\ \E n \in Over : Collect(JobOutcome(n)) = "propagate"
    /\ batch_pc' = "raised"
    /\ job_pc' = [n \in Names |-> IF n \in Running THEN "terminated" ELSE job_pc[n]]
    /\ UNCHANGED <<worldVars, returned_ids, job_probes, job_raised, startup_process>>
    /\ UNCHANGED <<spawnVars, getVars, deleteVars, passVars, pullVars, startVars,
                   issueVars, lockVars, charmVars>>

InitBatch == EngineIdle /\ NoUnits

JobStep(n) ==
    \/ launch_instance(n)
    \/ wait_runner_startup_attempt(n)
    \/ except_RunnerError(n)

InstanceStep(n) ==
    \/ instance_active(n)
    \/ startup_begin(n)
    \/ listener_start(n)
    \/ listener_exit(n)

NextBatch ==
    \/ \E n \in Names : get_registration_jittoken(n)
    \/ \E n \in Names : launch_instance(n)
    \/ \E n \in Names : wait_runner_startup_attempt(n)
    \/ \E n \in Names : except_RunnerError(n)
    \/ \E n \in Names : instance_active(n)
    \/ \E n \in Names : startup_begin(n)
    \/ \E n \in Names : listener_start(n)
    \/ \E n \in Names : listener_exit(n)
    \/ spawn_runners_return
    \/ spawn_runners_raise

SpecBatch == InitBatch /\ [][NextBatch]_vars

\* The reconciliation process begins its next pass: the cleanup of the last
\* pass is over, whether it returned or raised.
cleanup_again ==
    /\ cleanup_pc \in {"returned", "raised"}
    /\ cleanup_pc' = "idle"
    /\ cloud_before' = <<>>
    /\ github_before' = <<>>
    /\ github_runners_to_delete' = <<>>
    /\ runner_list' = <<>>
    /\ health_index' = 1
    /\ tries' = 0
    /\ probed' = {}
    /\ healthy' = <<>>
    /\ unhealthy' = <<>>
    /\ unhealthy_index' = 1
    /\ provider_deletes' = <<>>
    /\ script_run' = NoScript
    /\ cleanup_raised' = "none"
    /\ remove_token' = "none"
    /\ tokens_requested' = 0
    /\ UNCHANGED <<delete_pc, delete_num, runners_list, index, delete_calls,
                   runner_metrics_list>>
    /\ UNCHANGED <<worldVars, getVars, spawnVars, flushVars, runnerVars, unitVars>>

NoneSubmitted == \A m \in Names : job_pc[m] = "idle"

\* One creation job, and the passes of the reconciliation process.
NextCreate ==
    \/ NoneSubmitted /\ \E n \in Names : get_registration_jittoken(n)
    \/ \E n \in Names : launch_instance(n)
    \/ \E n \in Names : wait_runner_startup_attempt(n)
    \/ \E n \in Names : except_RunnerError(n)
    \/ \E n \in Names : instance_active(n)
    \/ \E n \in Names : startup_begin(n)
    \/ \E n \in Names : listener_start(n)
    \/ \E n \in Names : listener_exit(n)
    \/ spawn_runners_return
    \/ spawn_runners_raise
    \/ cleanup
    \/ cloud_cleanup
    \/ _get_runner_health
    \/ cleanup_delete_runner
    \/ cleanup_return
    \/ cleanup_again

SpecCreate == InitBatch /\ [][NextCreate]_vars

\* A step of the reconciliation process.
CleanupStep ==
    \/ cleanup
    \/ cloud_cleanup
    \/ _get_runner_health
    \/ cleanup_delete_runner
    \/ cleanup_return
    \/ cleanup_again

\* A step of the creation job or of its instance.
CreateStep ==
    \/ \E n \in Names : JobStep(n)
    \/ \E n \in Names : InstanceStep(n)
    \/ spawn_runners_return
    \/ spawn_runners_raise

\* The reconciliation process keeps running its passes, and the creation job
\* runs in a process of its own: neither waits for the other for ever.
FairCreate == WF_vars(CleanupStep) /\ WF_vars(CreateStep)

SpecCreateFair == SpecCreate /\ FairCreate

(***************************************************************************)
(* SpecCharm: successive CharmState.from_charm calls of one unit, each     *)
(* with the charm configuration of the moment, over the charm_state.json   *)
(* the calls before left on disk.                                          *)
(***************************************************************************)
\* class RunnerStorage(str, Enum)
RunnerStorage == {"juju-storage", "memory"}

\* The charm configurations from_charm is called with: the OpenStack clouds
\* yaml set or not, runner-storage (one value is no RunnerStorage),
\* virtual-machines (an int, a negative int, no int) and the architecture
\* of the machine.
CharmConfigs ==
    [clouds_yaml : BOOLEAN,
     runner_storage : RunnerStorage \cup {"tmpfs"},
     virtual_machines : {"1", "-1", "many"},
     arch : {"x86_64", "riscv64"}]

\* int(charm.config[VIRTUAL_MACHINES_CONFIG_NAME]): the int, or ValueError.
IntOf(text) ==
    IF text = "1" THEN [raised |-> "none", value |-> 1]
    ELSE IF text = "-1" THEN [raised |-> "none", value |-> -1]
    ELSE [raised |-> "ValueError", value |-> 0]

\* The fields class LocalLxdRunnerConfig(BaseModel) declares.
LocalLxdRunnerConfigFields == {"virtual_machines", "virtual_machine_resources"}

\* pydantic BaseModel.__init__: the keyword arguments that name a declared
\* field make the model, the others are ignored.
BaseModel(fields, kwargs) ==
    [f \in fields \cap DOMAIN kwargs |-> kwargs[f]]

\* LocalLxdRunnerConfig._check_storage_change over the charm_state.json on
\* disk: nothing to compare on first deployment, else the stored
\* runner_storage is read and compared.
_check_storage_change(file, runner_storage) ==
    IF ~file.exists THEN "none"
    ELSE IF "runner_storage" \notin DOMAIN file.state.runner_config THEN "KeyError"
    ELSE IF file.state.runner_config["runner_storage"] # runner_storage
         THEN "CharmConfigInvalidError"
    ELSE "none"

\* LocalLxdRunnerConfig.from_charm: the error raised, and the config built
\* when none is.  A ValueError of the validators leaves it as it is.
LocalLxdRunnerConfig_from_charm(config, file) ==
    LET checked == _check_storage_change(file, config.runner_storage)
        virtual_machines == IntOf(config.virtual_machines)
        built == BaseModel(LocalLxdRunnerConfigFields,
                           [virtual_machines |-> virtual_machines.value,
                            virtual_machine_resources |-> "resources",
                            runner_storage |-> config.runner_storage])
    IN  IF config.runner_storage \notin RunnerStorage
        THEN [raised |-> "CharmConfigInvalidError", runner_config |-> <<>>]
        ELSE IF checked # "none"
        THEN [raised |-> checked, runner_config |-> <<>>]
        ELSE IF virtual_machines.raised # "none"
        THEN [raised |-> "CharmConfigInvalidError", runner_config |-> <<>>]
        ELSE IF virtual_machines.value < 0
        THEN [raised |-> "ValueError", runner_config |-> <<>>]
        ELSE [raised |-> "none", runner_config |-> built]

\* The fields class OpenstackRunnerConfig(BaseModel) declares.
OpenstackRunnerConfigFields ==
    {"virtual_machines", "openstack_flavor", "openstack_network", "image_id"}

\* OpenstackRunnerConfig.from_charm
OpenstackRunnerConfig_from_charm(config) ==
    LET virtual_machines == IntOf(config.virtual_machines)
    IN  IF virtual_machines.raised # "none"
        THEN [raised |-> "CharmConfigInvalidError", runner_config |-> <<>>]
        ELSE [raised |-> "none",
              runner_config |->
                  BaseModel(OpenstackRunnerConfigFields,
                            [virtual_machines |-> virtual_machines.value,
                             openstack_flavor |-> "flavor",
                             openstack_network |-> "network",
                             image_id |-> "image"])]

\* ARCHITECTURES_ARM64 and ARCHITECTURES_X86
SupportedArch == {"aarch64", "arm64", "x86_64"}

\* CharmState.from_charm up to _store_state: the error raised, and the
\* state built when none is.  The ValueError of a runner config becomes a
\* CharmConfigInvalidError, as does an unsupported architecture; no other
\* error is caught.
CharmState_from_charm(config, file) ==
    LET instance_type == IF config.clouds_yaml THEN "openstack" ELSE "local_lxd"
        runner == IF config.clouds_yaml THEN OpenstackRunnerConfig_from_charm(config)
                  ELSE LocalLxdRunnerConfig_from_charm(config, file)
    IN  IF runner.raised = "ValueError"
        THEN [raised |-> "CharmConfigInvalidError", state |-> <<>>]
        ELSE IF runner.raised # "none"
        THEN [raised |-> runner.raised, state |-> <<>>]
        ELSE IF config.arch \notin SupportedArch
        THEN [raised |-> "CharmConfigInvalidError", state |-> <<>>]
        ELSE [raised |-> "none",
              state |-> [instance_type |-> instance_type,
                         runner_config |-> runner.runner_config]]

\* CharmState._store_state: the state written to charm_state.json.
_store_state(state) == [exists |-> TRUE, state |-> state]

\* One CharmState.from_charm call: the state is stored when it was built,
\* the file is left alone when the call raised.
from_charm ==
    /\ \E config \in CharmConfigs :
          LET result == CharmState_from_charm(config, charm_state_file)
              stored == result.raised = "none"
          IN  /\ charm_config' = config
              /\ from_charm_result' = [called |-> TRUE, raised |-> result.raised,
                                       previous_storage |-> stored_storage]
              /\ charm_state_file' = IF stored THEN _store_state(result.state)
                                     ELSE charm_state_file
              /\ stored_storage' = IF ~stored THEN stored_storage
                                   ELSE IF config.clouds_yaml THEN "none"
                                   ELSE config.runner_storage
    /\ file_before' = charm_state_file
    /\ UNCHANGED <<engineVars, pullVars, startVars, issueVars, lockVars, jobVars>>

InitCharm == EngineIdle /\ NoUnits

NextCharm == from_charm

SpecCharm == InitCharm /\ [][NextCharm]_vars

(***************************************************************************)
(* Claims about create_runners (checked under SpecSpawn).                  *)
(***************************************************************************)
SpawnOver == spawn_pc \in {"returned", "raised"}

Attempted == finished["ok"] + finished["RunnerError"] + finished["OtherError"]

C3_ConcurrencyCap ==
    num > 1 => running <= Min(num, PoolCap)

C3_Witness ==
    /\ spawn_pc = "pool"
    /\ num > PoolCap
    /\ running = PoolCap
    /\ queued > 0

Returned(name) ==
    {i \in 1..Len(runner_instances) : runner_instances[i].name = name}

CloudRecord(name) == CHOOSE c \in Range(cloud) : c.name = name

GithubRecord(name) == CHOOSE g \in Range(github) : g.instance_id.name = name

GotUnfiltered == op = "get_runners" /\ Unfiltered

\* C5: a name in the cloud list and in the GitHub list is returned by the
\* unfiltered get_runners exactly once, with its cloud state and its GitHub
\* state.
C5_MergedOnce ==
    GotUnfiltered =>
        \A name \in CloudNames(cloud) \cap GithubNames(github) :
            /\ Cardinality(Returned(name)) = 1
            /\ \A i \in Returned(name) :
                   /\ runner_instances[i].instance_id = InstanceID(name)
                   /\ runner_instances[i].cloud_state = CloudRecord(name).state
                   /\ runner_instances[i].cloud_state \in CloudRunnerState
                   /\ runner_instances[i].github_state = from_runner(GithubRecord(name))
                   /\ runner_instances[i].github_state \in GitHubRunnerState

C5_Witness ==
    /\ GotUnfiltered
    /\ CloudNames(cloud) \cap GithubNames(github) # {}
    /\ CloudNames(cloud) \ GithubNames(github) # {}

\* C6: a name in the cloud list only is returned by the unfiltered
\* get_runners, once, with github_state none, and is named in the "cloud
\* only" warning.
C6_CloudOnlyKept ==
    GotUnfiltered =>
        \A name \in CloudNames(cloud) \ GithubNames(github) :
            /\ Cardinality(Returned(name)) = 1
            /\ \A i \in Returned(name) : runner_instances[i].github_state = "none"
            /\ name \in cloud_only

C6_Witness ==
    /\ GotUnfiltered
    /\ cloud_only # {}
    /\ Len(runner_instances) = MaxRunners

\* C7: a get_runners call changes neither the cloud list nor the GitHub
\* list; a runner registered on GitHub only is not returned and stays
\* registered, an instance on the cloud only stays, and the unfiltered call
\* names both in its warnings.
C7_GetRunnersReadOnly ==
    [][op' = "get_runners" =>
        /\ cloud' = cloud
        /\ github' = github
        /\ \A name \in GithubNames(github) \ CloudNames(cloud) :
               /\ name \in GithubNames(github')
               /\ \A i \in 1..Len(runner_instances') : runner_instances'[i].name # name
        /\ \A name \in CloudNames(cloud) \ GithubNames(github) :
               name \in CloudNames(cloud')
        /\ Unfiltered' =>
               /\ github_only' = GithubNames(github) \ CloudNames(cloud)
               /\ cloud_only' = CloudNames(cloud) \ GithubNames(github)
      ]_vars

C7_Witness ==
    /\ GotUnfiltered
    /\ github_only # {}
    /\ cloud_only # {}
    /\ github_only \subseteq GithubNames(github)

\* C8: with a GitHub state filter every returned runner has a GitHub state,
\* one of the filter; with a cloud state filter every returned runner's cloud
\* state is one of the filter.
C8_FiltersHold ==
    op = "get_runners" =>
        \A i \in 1..Len(runner_instances) :
            /\ call.github_states.given =>
                   /\ runner_instances[i].github_state # "none"
                   /\ runner_instances[i].github_state \in call.github_states.states
            /\ call.cloud_states.given =>
                   runner_instances[i].cloud_state \in call.cloud_states.states

C8_Witness ==
    /\ op = "get_runners"
    /\ call.github_states.given
    /\ call.cloud_states.given
    /\ Len(runner_instances) = 1
    /\ Len(cloud) = MaxRunners
    /\ CloudNames(cloud) \ GithubNames(github) # {}

C10_OneRemovalToken ==
    op = "delete_runners" =>
        /\ tokens_requested = 1
        /\ remove_token \in Tokens
        /\ \A i \in 1..Len(delete_calls) :
               /\ delete_calls[i].remove_token = remove_token
               /\ delete_calls[i].script_token \in {"none", remove_token}

C10_Witness ==
    /\ op = "delete_runners"
    /\ delete_pc = "idle"
    /\ Len(delete_calls) > 1
    /\ \A i \in 1..Len(delete_calls) : delete_calls[i].script_token = remove_token

\* C11: delete_runners(num), num >= 0, deletes the first num runners of the
\* unfiltered get_runners() result (all of them when there are fewer), one
\* cloud delete_runner call per runner, in the order of the result: at every
\* moment of the call the deletions made are the head of the result, and at
\* the return they are its first num entries.
C11_FirstNumInOrder ==
    op = "delete_runners" =>
        /\ Len(delete_calls) = index - 1
        /\ Len(delete_calls) <= Len(runner_instances)
        /\ \A i \in 1..Len(delete_calls) :
               delete_calls[i].instance_id = runner_instances[i].instance_id
        /\ delete_num >= 0 =>
               /\ Len(delete_calls) <= delete_num
               /\ delete_pc = "idle" =>
                      Len(delete_calls) = Min(delete_num, Len(runner_instances))

C11_Witness ==
    /\ op = "delete_runners"
    /\ delete_pc = "idle"
    /\ delete_num = 1
    /\ Len(runner_instances) = MaxRunners
    /\ Len(delete_calls) = 1

(***************************************************************************)
(* Claims about flush_runners (checked under SpecFlush).                   *)
(***************************************************************************)
\* C12: flush_runners(FLUSH_IDLE) removes the idle instances and no busy one;
\* flush_runners(FLUSH_BUSY) removes the idle and the busy instances.
C12_FlushByMode ==
    [][/\ flush_mode' = "FLUSH_IDLE" =>
            /\ flushed' = CloudNames(cloud) \ busy_instances
            /\ CloudNames(cloud') = CloudNames(cloud) \cap busy_instances
       /\ flush_mode' = "FLUSH_BUSY" =>
            /\ flushed' = CloudNames(cloud)
            /\ cloud' = <<>>]_vars

C12_Witness ==
    /\ op = "flush_runners"
    /\ flush_mode = "FLUSH_IDLE"
    /\ flushed # {}
    /\ busy_instances # {}

(***************************************************************************)
(* Claims about cleanup (checked under SpecCleanup).                       *)
(***************************************************************************)
\* The registration of name was offline when the cleanup began.
OfflineBefore(name) ==
    \E i \in 1..Len(github_before) :
        /\ github_before[i].instance_id.name = name
        /\ from_runner(github_before[i]) = "offline"

\* The instance of name was listed with one of these states and health when
\* the cleanup began.
InstanceBefore(name, states, healths) ==
    \E i \in 1..Len(cloud_before) :
        /\ cloud_before[i].name = name
        /\ cloud_before[i].state \in states
        /\ cloud_before[i].health \in healths

MarkedNames ==
    {github_runners_to_delete[i].instance_id.name :
        i \in 1..Len(github_runners_to_delete)}

Reconciled == cleanup_pc # "idle"

\* The registration of name was not handed to delete_runners, and it stays
\* until, if ever, the cloud manager deletes the instance of the runner.
Spared(name) ==
    /\ name \notin MarkedNames
    /\ name \in GithubNames(github) \/ name \in Range(provider_deletes)
    /\ cleanup_pc = "reconciled" => name \in GithubNames(github)

\* The registration of name was handed to delete_runners and is gone.
Deleted(name) ==
    /\ name \in MarkedNames
    /\ name \notin GithubNames(github)

C15_NonReactiveDeleted ==
    Reconciled =>
        \A name \in Names :
            (~InstanceID(name).reactive /\ OfflineBefore(name)) => Deleted(name)

C15_Witness ==
    /\ cleanup_pc = "returned"
    /\ \E name \in Names :
           /\ ~InstanceID(name).reactive
           /\ OfflineBefore(name)
           /\ name \notin CloudNames(cloud_before)
           /\ name \in MarkedNames
    /\ \E name \in Names :
           /\ InstanceID(name).reactive
           /\ OfflineBefore(name)
           /\ name \notin MarkedNames

\* C16: the offline registration of a reactive runner that has no cloud
\* instance is not deleted by cleanup().
C16_UnmatchedSpared ==
    Reconciled =>
        \A name \in Names :
            (/\ InstanceID(name).reactive
             /\ OfflineBefore(name)
             /\ name \notin CloudNames(cloud_before)) =>
                /\ name \notin MarkedNames
                /\ name \in GithubNames(github)

C16_Witness ==
    /\ cleanup_pc = "returned"
    /\ cloud_before # <<>>
    /\ \E name \in Names :
           /\ InstanceID(name).reactive
           /\ OfflineBefore(name)
           /\ name \notin CloudNames(cloud_before)
           /\ name \in GithubNames(github)

\* C17: the reconciliation of the offline registrations changes the
\* coordination service only: the registrations it removes were offline, it
\* adds and changes none, and the cloud instances are as they were.
C17_ReconciliationFrame ==
    [][(cleanup_pc = "idle" /\ cleanup_pc' = "reconciled") =>
           /\ cloud' = cloud
           /\ Range(github') \subseteq Range(github)
           /\ \A r \in Range(github) \ Range(github') : from_runner(r) = "offline"]_vars

C17_Witness ==
    /\ cleanup_pc = "reconciled"
    /\ MarkedNames # {}
    /\ MarkedNames \cap CloudNames(cloud) # {}
    /\ \E i \in 1..Len(github) : from_runner(github[i]) # "offline"

\* The cleanup is over: it returned, or raised an error.
CleanupOver == cleanup_pc \in {"returned", "raised"}

\* C18: the cloud manager's cleanup classifies every instance, one in the
\* deleted, error or stopped state as unhealthy without a probe and the
\* others by the probe, and calls delete_instance for the unhealthy ones and
\* no other; the removal script is run on no healthy instance.
C18_ExactlyUnhealthyDeleted ==
    /\ Range(provider_deletes) \subseteq Range(unhealthy)
    /\ script_run.script => script_run.name \in Range(unhealthy)
    /\ \A i \in 1..Len(runner_list) :
           LET runner == runner_list[i]
           IN  /\ runner.state \in UnhealthyStates => runner.name \notin probed
               /\ runner.name \in Range(healthy) =>
                      /\ runner.name \in probed
                      /\ runner.name \in CloudNames(cloud)
    /\ CleanupOver =>
           /\ Range(healthy) \cup Range(unhealthy) = CloudNames(runner_list)
           /\ Range(provider_deletes) = Range(unhealthy)
           /\ \A i \in 1..Len(runner_list) :
                  runner_list[i].state \in UnhealthyStates =>
                      runner_list[i].name \in Range(unhealthy)

\* C19: _health_check is attempted at most three times for an instance, and
\* an instance whose attempts all end with an SshError is classified
\* unhealthy, the cleanup going on with the instances that remain.
C19_SshFailureIsUnhealthy ==
    /\ tries <= HealthCheckTries
    /\ cleanup_raised # "SshError"
    /\ tries = HealthCheckTries =>
           runner_list[health_index].name \in Range(unhealthy)

(***************************************************************************)
(* Claims about the cloud manager's delete_runner (checked under           *)
(* SpecDeleteRunner).                                                      *)
(***************************************************************************)
\* C20: a deletion calls delete_instance whatever the SSH connection, the
\* metrics pull and the removal script ended with, as its last step, and
\* raises nothing, a failure of delete_instance included; the instance is
\* gone when delete_instance succeeded.
C20_BestEffortDelete ==
    last_delete.called =>
        /\ last_delete.steps[Len(last_delete.steps)] = "delete_instance"
        /\ last_delete.raised = "none"
        /\ delete_args.provider = "ok" => cloud = <<>>

C20_Witness ==
    /\ last_delete.called
    /\ delete_args.ssh = "SshError"
    /\ delete_args.provider = "OpenstackError"
    /\ last_delete.steps = <<"get_ssh_connection", "delete_instance">>
    /\ cloud # <<>>

\* The place of a step among the steps of the deletion, 0 when it was not taken.
Place(step) ==
    IF step \in Range(last_delete.steps)
    THEN CHOOSE i \in 1..Len(last_delete.steps) : last_delete.steps[i] = step
    ELSE 0

\* C21 as stated: every deletion pulls the metrics, then runs the removal
\* script, then deletes the instance; no instance is deleted without a
\* metrics pull attempted before.
C21_PullBeforeEveryDelete ==
    last_delete.called =>
        /\ Place("delete_instance") > 0
        /\ Place("pull_runner_metrics") > 0
        /\ Place("pull_runner_metrics") < Place("delete_instance")
        /\ Place("removal_script") > 0 =>
               /\ Place("pull_runner_metrics") < Place("removal_script")
               /\ Place("removal_script") < Place("delete_instance")

\* C21, amended: the steps a deletion takes come in the order metrics pull,
\* removal script, delete_instance, and the script is never run without the
\* pull before it; the pull is attempted exactly when the SSH connection was
\* opened, and with no connection the instance is deleted with neither.
C21_StepsInOrder ==
    last_delete.called =>
        /\ Place("delete_instance") = Len(last_delete.steps)
        /\ Place("removal_script") > 0 =>
               /\ Place("pull_runner_metrics") > 0
               /\ Place("pull_runner_metrics") < Place("removal_script")
               /\ Place("removal_script") < Place("delete_instance")
        /\ Place("pull_runner_metrics") > 0 =>
               Place("pull_runner_metrics") < Place("delete_instance")
        /\ Place("pull_runner_metrics") > 0 <=> delete_args.ssh = "ok"
        /\ Place("removal_script") > 0 <=>
               (delete_args.ssh = "ok" /\ delete_args.pull # "SshError")

C21_Witness ==
    /\ last_delete.called
    /\ last_delete.steps = <<"get_ssh_connection", "pull_runner_metrics",
                             "removal_script", "delete_instance">>
    /\ delete_args.script = "GithubRunnerRemoveError"

(***************************************************************************)
(* Claims about the metrics pull (checked under SpecPull).                 *)
(***************************************************************************)
\* The file can be pulled: both remote commands succeed and its size is
\* within the limit.
Pullable(file) ==
    file.stat = "ok" /\ file.get = "ok" /\ file.size <= MAX_METRICS_FILE_SIZE

TooLarge(file) == file.stat = "ok" /\ file.size > MAX_METRICS_FILE_SIZE

\* C22: with the metrics storage there, a metrics file of more than 1024
\* bytes is not pulled and nothing is raised for it, and the other file,
\* when it can be pulled, is pulled.
C22_OversizedFileSkipped ==
    (pull_result.called /\ pull_args.storage = "ok") =>
        /\ (TooLarge(pull_args.pre_job) /\ Pullable(pull_args.post_job)) =>
               /\ pull_result.pulled = {"post-job-metrics.json"}
               /\ pull_result.raised = "none"
        /\ (TooLarge(pull_args.post_job) /\ Pullable(pull_args.pre_job)) =>
               /\ pull_result.pulled = {"pre-job-metrics.json"}
               /\ pull_result.raised = "none"

(***************************************************************************)
(* Claims about create_runner of the cloud manager (checked under          *)
(* SpecStart).                                                             *)
(***************************************************************************)
\* The last attempt found the startup process.
Found ==
    last_probe.ssh = "ok" /\ last_probe.ps = "ok" /\ last_probe.process

\* C23: after a launch that succeeded the startup process is probed for at
\* most 10 times; create_runner returns at the first attempt that finds the
\* process, and raises a RunnerStartError exactly when 10 attempts failed;
\* a launch the provider rejected raises a RunnerCreateError with no
\* attempt made.
C23_StartupProbe ==
    /\ probes <= StartupTries
    /\ start_pc = "returned" =>
           /\ launch = "ok"
           /\ Found
           /\ failed_probes = probes - 1
    /\ start_pc = "probing" =>
           /\ launch = "ok"
           /\ failed_probes = probes
           /\ probes < StartupTries
           /\ probes > 0 => ~Found
    /\ start_raised = "RunnerStartError" <=>
           (launch = "ok" /\ failed_probes = StartupTries)
    /\ start_raised = "RunnerCreateError" <=> launch = "OpenstackError"
    /\ launch = "OpenstackError" => (probes = 0 /\ start_pc = "raised")
    /\ start_pc = "raised" <=> start_raised # "none"

\* The call returned after nine attempts that failed.
C23_Witness ==
    /\ start_pc = "returned"
    /\ probes = StartupTries
    /\ failed_probes = StartupTries - 1

(***************************************************************************)
(* Claims about _issue_runner_metrics (checked under SpecIssue).           *)
(***************************************************************************)
\* C24: job metrics are requested only for records with pre-job metrics,
\* and a failure of the request never aborts the pass: the events of that
\* runner are issued without job metrics, and the records after it are
\* processed.
C24_JobMetricsBestEffort ==
    /\ issue_pc # "raised"
    /\ \A i \in DOMAIN issue_log :
          /\ issue_log[i].requested <=> issue_log[i].pre_job
          /\ issue_log[i].job_metrics => issue_log[i].requested
          /\ issue_log[i].issued
    /\ issue_pc = "loop" => Len(issue_log) + Len(metrics_left) <= MaxRecords
    /\ issue_pc = "returned" => metrics_left = <<>>

\* A request failed for the first of two records and both were processed.
C24_Witness ==
    /\ issue_pc = "returned"
    /\ Len(issue_log) = 2
    /\ issue_log[1].requested
    /\ ~issue_log[1].job_metrics
    /\ issue_log[1].issued_events # {}
    /\ ~issue_log[2].pre_job

\* The records of the invocation for which an event of the kind was issued.
IssuedFor(kind) ==
    {i \in DOMAIN issue_log : kind \in issue_log[i].issued_events}

\* C25: the stats of an invocation start empty, and the count of every
\* event kind is the number of records of the invocation for which an event
\* of that kind was issued, whatever an earlier invocation counted.
C25_StatsCountIssuedRecords ==
    /\ DOMAIN total_stats = {k \in EventKinds : IssuedFor(k) # {}}
    /\ \A k \in DOMAIN total_stats :
          total_stats[k] = Cardinality(IssuedFor(k))
    /\ (issue_pc = "loop" /\ issue_log = <<>>) => total_stats = NoStats

\* A second invocation counted less than the first had returned.
C25_Witness ==
    /\ issue_pc = "returned"
    /\ invocations = 2
    /\ "RunnerStart" \in DOMAIN returned_stats
    /\ returned_stats["RunnerStart"] = 2
    /\ "RunnerStart" \in DOMAIN total_stats
    /\ total_stats["RunnerStart"] = 1
    /\ "RunnerStop" \notin DOMAIN total_stats

(***************************************************************************)
(* Claims about the lock endpoints (checked under SpecLock, and under      *)
(* SpecLockFair for liveness).                                             *)
(***************************************************************************)
\* The step answered a request on the route.
Answered(route) == response'.route = route

\* A step in which /lock/acquire is answered finds the lock free and leaves
\* it locked, and a pending request goes only by being answered, never
\* while the lock is locked.
AcquireStep ==
    /\ Answered("acquire") =>
           /\ ~lock /\ lock'
           /\ response'.status = 200
           /\ response'.party \in pending \ pending'
    /\ lock => pending \subseteq pending'
    /\ (pending' # pending /\ pending' \subseteq pending) => Answered("acquire")

\* C26: a /lock/acquire is answered 200 only in a step that finds the lock
\* free and leaves it locked; while the lock is locked no pending request
\* is answered; the lock is taken at most once between two releases.
C26_AcquireExclusive ==
    [](acquired <= 1) /\ [][AcquireStep]_vars

\* A client waits for the lock another one holds.
C26_Witness ==
    /\ lock
    /\ holder = "operator"
    /\ "client" \in pending
    /\ response.route = "acquire"

\* C27: /lock/status answers 200 with "locked" exactly when the lock is
\* locked and "unlocked" otherwise, and changes nothing of the lock.
C27_StatusReadsLock ==
    [][Answered("status") =>
          /\ response'.status = 200
          /\ response'.body = (IF lock THEN "locked" ELSE "unlocked")
          /\ response'.body \in {"locked", "unlocked"}
          /\ lock' = lock
          /\ pending' = pending]_vars

\* The status of a locked lock was answered.
C27_Witness ==
    /\ response.route = "status"
    /\ response.body = "locked"
    /\ lock

\* C28: /lock/release answers 200 and leaves the lock unlocked in every
\* state of the lock, also when it is not locked.
C28_ReleaseAlwaysOk ==
    [][Answered("release") => (response'.status = 200 /\ ~lock')]_vars

\* C29 as stated: once a party has the lock no other party takes it until
\* that party has released it.
C29_HolderKeepsLock ==
    Cardinality(holding) <= 1

\* A party that comes to hold the lock takes it with no holder left.
TakenWhenReleased ==
    (holder' # "none" /\ (holder' # holder \/ holding' # holding)) =>
        (holder = "none" /\ holding' = holding \cup {holder'})

\* C29: once a party has the lock no other party takes it until a release
\* was served, whichever party asked for it.
C29_NoAcquireBeforeRelease ==
    /\ [](holder # "none" <=> lock)
    /\ [](holder # "none" => holder \in holding)
    /\ [][TakenWhenReleased]_vars

\* The operator took the lock, another client released it, and the
\* reconciliation service runs a pass with the operator not having released.
C29_Witness ==
    /\ holding = {"operator", "reconcile"}
    /\ holder = "reconcile"
    /\ reconcile_pc = "pass"

\* The party's /lock/acquire was answered 200.
AcquireAnswered(party) ==
    /\ response.party = party
    /\ response.route = "acquire"
    /\ response.status = 200

ProviderDeletesOfCall ==
    LET asked == SelectSeq(delete_calls, LAMBDA c : c.delete_instance)
    IN  [i \in 1..Len(asked) |-> asked[i].instance_id.name]

NoRepeat(seq) ==
    \A i, j \in 1..Len(seq) : i # j => seq[i] # seq[j]

\* C31: within one pass, a delete_runners call or a cleanup call, no
\* instance is asked to be deleted from the provider twice.
C31_NoDoubleDelete ==
    /\ NoRepeat(ProviderDeletesOfCall)
    /\ NoRepeat(provider_deletes)

\* A cleanup asked the provider to delete two instances.
C31_Witness ==
    /\ cleanup_pc = "returned"
    /\ Len(provider_deletes) = 2

\* C33: once the instances to delete are selected, no SSH error, failure of
\* the removal script or provider error on one of them stops the loop: the
\* provider is asked to delete every selected instance, in order.
C33_LoopGoesOn ==
    /\ delete_pc # "raised"
    /\ delete_pc = "deleting" =>
           ProviderDeletesOfCall =
               [i \in 1..(index - 1) |-> runners_list[i].name]
    /\ (op = "delete_runners" /\ delete_pc = "idle") =>
           ProviderDeletesOfCall =
               [i \in 1..Len(runners_list) |-> runners_list[i].name]
    /\ cleanup_pc = "raised" => (unhealthy_index = 1 /\ provider_deletes = <<>>)
    /\ cleanup_pc = "delete" =>
           provider_deletes = SubSeq(unhealthy, 1, unhealthy_index - 1)
    /\ cleanup_pc = "returned" => provider_deletes = unhealthy

\* A delete_runners call went on to its second runner after the first could
\* not be reached over SSH and was not deleted by the provider.
C33_Witness ==
    /\ op = "delete_runners"
    /\ delete_pc = "idle"
    /\ Len(delete_calls) = 2
    /\ delete_calls[1].script_token = "none"
    /\ delete_calls[1].instance_id.name \in CloudNames(cloud)
    /\ delete_calls[2].delete_instance

(***************************************************************************)
(* Claims about the arguments the engine is not written for.               *)
(***************************************************************************)
\* C37 (checked under SpecFlush): flush_runners with a mode that is neither
\* FLUSH_IDLE nor FLUSH_BUSY logs the problem and does nothing else: no
\* removal token is requested and no instance is removed.
C37_UnknownModeNoOp ==
    (op = "flush_runners" /\ flush_mode \notin FlushMode) =>
        /\ flush_log = "critical"
        /\ tokens_requested = 0
        /\ flushed = {}

\* C38 (checked under SpecSpawn): create_runners(num), num >= 0, returns
\* without raising at most num instance ids; create_runners(0) returns the
\* empty tuple with no creation job run.
C38_CreateRunnersReturns ==
    /\ spawn_pc # "raised"
    /\ spawn_pc = "returned" => instance_id_list <= num
    /\ (spawn_pc = "returned" /\ num = 0) =>
           (instance_id_list = 0 /\ finished = NoJobs)

Max(a, b) == IF a >= b THEN a ELSE b

\* C39 (checked under SpecDelete): delete_runners(num) attempts to delete
\* min(max(num, 0), fleet size) instances: never more than num, and none
\* for num <= 0.
C39_DeletesMinMax ==
    op = "delete_runners" =>
        /\ Len(delete_calls) <= Max(delete_num, 0)
        /\ delete_pc = "idle" =>
               Len(delete_calls) = Min(Max(delete_num, 0), Len(runner_instances))

(***************************************************************************)
(* Claims about the creation jobs (checked under SpecBatch, SpecCreate and *)
(* SpecCreateFair).                                                        *)
(***************************************************************************)
\* C36: a creation job registers its runner before it launches the
\* instance, so the instance of a job that has not failed has a
\* registration; when the cloud creation failed, the registration is deleted
\* by the time the job reports the failure; and when create_runners has
\* returned, the registrations the call left are exactly those of the
\* InstanceIDs it returned.
C36_RegistrationsOfReturnedIds ==
    /\ \A n \in Names :
          /\ (n \in CloudNames(cloud) /\ job_pc[n] \in {"probing", "returned"})
                => n \in GithubNames(github)
          /\ (job_pc[n] = "raised" /\ job_raised[n] \in RunnerErrors)
                => n \notin GithubNames(github)
    /\ batch_pc = "returned" => GithubNames(github) = returned_ids

\* create_runners returned one id while the startup of another job of the
\* call failed and left its instance behind.
C36_Witness ==
    /\ batch_pc = "returned"
    /\ returned_ids # {}
    /\ \E n \in Names :
          /\ job_raised[n] = "RunnerStartError"
          /\ n \in CloudNames(cloud)
          /\ n \notin returned_ids

\* The creation job of n is in progress: the registration is issued, the
\* launch or the startup probe is not finished.
InCreation(n) == job_pc[n] \in {"registered", "probing"}

\* C34: whatever the interleaving of a reactive creation job with the
\* cleanup passes, the registration of a reactive runner whose creation job
\* is in progress is not deleted: while the job is in progress the runner is
\* registered.
C34_ReactiveRegistrationKept ==
    \A n \in Names :
        (InstanceID(n).reactive /\ InCreation(n)) => n \in GithubNames(github)

\* The instance of n is booting: launched by a job whose startup probe runs
\* or has succeeded, no listener or worker on it yet.
Booting(n) ==
    /\ job_pc[n] \in {"probing", "returned"}
    /\ n \in CloudNames(cloud)
    /\ Of(cloud, n).health = "unhealthy"

BootingKept == \A n \in Names : Booting(n) => n \in CloudNames(cloud')

\* C35: an instance that is booting is not deleted by a cleanup pass that
\* runs meanwhile: no step takes a booting instance from the cloud.
C35_BootingNotDeleted == [][BootingKept]_vars

\* The creation job of n launched an instance and failed: the attempts of
\* the startup probe are used up.
StartFailed(n) == job_pc[n] = "raised" /\ job_raised[n] = "RunnerStartError"

\* C32: the instance of a creation job whose startup failed is eventually
\* handed to the provider's delete_instance (or is gone already), as long
\* as cleanup passes keep running.
C32_FailedInstanceDeleted ==
    \A n \in Names :
        StartFailed(n) ~> (n \in Range(provider_deletes) \/ n \notin CloudNames(cloud))

(***************************************************************************)
(* Claims about CharmState.from_charm (checked under SpecCharm).           *)
(***************************************************************************)
\* The last from_charm call was made for a local LXD deployment whose state
\* a call before had stored with runner-storage r.previous_storage.
LaterLocalLxdCall ==
    /\ from_charm_result.called
    /\ ~charm_config.clouds_yaml
    /\ from_charm_result.previous_storage # "none"

\* The rest of the configuration of the last call is valid.
RestValid ==
    /\ IntOf(charm_config.virtual_machines).raised = "none"
    /\ IntOf(charm_config.virtual_machines).value >= 0
    /\ charm_config.arch \in SupportedArch

\* C40: for a local LXD deployment runner-storage is fixed at first
\* deployment: after a call that stored the state with runner-storage X, a
\* later call with the same X succeeds, and a later call with another value
\* raises CharmConfigInvalidError and leaves charm_state.json as it was.
C40_RunnerStorageFixed ==
    LaterLocalLxdCall =>
        /\ (charm_config.runner_storage = from_charm_result.previous_storage
               /\ RestValid)
              => from_charm_result.raised = "none"
        /\ charm_config.runner_storage # from_charm_result.previous_storage
              => /\ from_charm_result.raised = "CharmConfigInvalidError"
                 /\ charm_state_file = file_before

====
